---------------------------- MODULE Spec2Model ----------------------------
(***************************************************************************)
(* HapticRingMonitoring: the Izhikevich neuron (izhikevich_neuron.py), the *)
(* spike encoder (spike_encoder.py), the Raspberry Pi receive loop         *)
(* (pi/spike_haptic_raspi.py), the UDP sender (ClassCommunication.py) and  *)
(* the sound synthesis (haptic_renderer.py, pi/player.py).                 *)
(*                                                                         *)
(* Reals are fixed-point integers.  Potentials, recovery values, currents, *)
(* magnitudes and speeds are in hundredths (v = -7000 is -70.0 mV), the    *)
(* neuron parameter a is in ten-thousandths (a = 200 is 0.02), b, gains    *)
(* and roughness are in hundredths, dt is in hundredths of a millisecond.  *)
(* A product of two scaled values is divided back by the scale, rounding   *)
(* down.                                                                   *)
(***************************************************************************)
EXTENDS Integers, Sequences, FiniteSets, TLC

VARIABLES
    neuron,     \* IzhikevichNeuron: [a, b, c, d, v, u]
    nout,       \* last IzhikevichNeuron.step: [called, fired, u_before]
    bank,       \* IzhikevichNeuronArray: [a, b, c, d, v, u], each an array
    bout,       \* last IzhikevichNeuronArray.step: [called, fired, u_before]
    ndt,        \* the dt the caller passes to the neuron steps
    nticks,     \* number of neuron steps made
    enc,        \* SpikeEncoder's fields
    cfg,        \* SpikeEncoder's configuration (constructor arguments)
    loc,        \* the locals and arguments of the last SpikeEncoder.step
    last_op,    \* the SpikeEncoder method that ran last
    eticks,     \* number of SpikeEncoder.step calls made
    pi,         \* SpikeHapticPi and its receive thread
    comm,       \* CommunicationModule: the datagrams handed to the socket, last call
    rend,       \* HapticRenderer / HapticPlayModule: the synthesis calls made
    sim,        \* two simulation runs of one neuron or one array, same inputs
    hist,       \* history of the update_sa_input and step calls of one SpikeEncoder
    proc,       \* DataProcessor: GUI thread, worker thread, queue, emitted signals
    boot,       \* SpikeHapticPi.__init__ running beside the receive thread
    player,     \* AudioPlayer / HapticPlayModule: the play_sound calls made
    mat         \* current material of HapticCore, AutoHapticSystem, HapticAudioPlayer

vars == <<neuron, nout, bank, bout, ndt, nticks, enc, cfg, loc, last_op, eticks, pi,
          comm, rend, sim, hist, proc, boot, player, mat>>

\* The parts of the state that belong to the later sections.
laterVars == <<hist, proc, boot, player, mat>>

neuronVars  == <<neuron, nout, bank, bout, ndt, nticks>>
encoderVars == <<enc, cfg, loc, last_op, eticks>>

Abs(x) == IF x < 0 THEN 0 - x ELSE x

-----------------------------------------------------------------------------
(* izhikevich_neuron.py                                                    *)

\* Bound: neuron steps per behaviour.
MaxNeuronTicks == 4

\* self.v >= 30
SpikeThreshold == 3000

\* dv/dt = 0.04*v^2 + 5*v + 140 - u + I
dv_dt(v, u, I) == (v * v) \div 2500 + 5 * v + 14000 - u + I

\* du/dt = a(bv - u), with the already updated v
du_dt(a, b, v, u) == (a * ((b * v) \div 100 - u)) \div 10000

\* x += dt * rate
Euler(x, dt, rate) == x + (dt * rate) \div 100

\* IzhikevichNeuron.__init__: u starts at b * v_init
IzhikevichNeuron(a, b, c, d, v_init) ==
    [a |-> a, b |-> b, c |-> c, d |-> d, v |-> v_init, u |-> (b * v_init) \div 100]

\* A step that reports the spike but leaves v where it crossed the threshold.
IzhikevichNeuron_step_noreset(n, dt, I) ==
    LET v1 == Euler(n.v, dt, dv_dt(n.v, n.u, I))
        u1 == Euler(n.u, dt, du_dt(n.a, n.b, v1, n.u))
    IN  IF v1 >= SpikeThreshold
        THEN [nrn |-> [n EXCEPT !.v = v1, !.u = u1 + n.d], fired |-> TRUE, u_before |-> u1]
        ELSE [nrn |-> [n EXCEPT !.v = v1, !.u = u1], fired |-> FALSE, u_before |-> u1]

\* A step whose input current also depends on how many steps have been made
\* on any neuron so far (state outside the neuron).
IzhikevichNeuron_step_ambient(n, dt, I) ==
    LET made == Len(sim.out[1]) + Len(sim.out[2])
        v1 == Euler(n.v, dt, dv_dt(n.v, n.u, I + 500 * made))
        u1 == Euler(n.u, dt, du_dt(n.a, n.b, v1, n.u))
    IN  IF v1 >= SpikeThreshold
        THEN [nrn |-> [n EXCEPT !.v = n.c, !.u = u1 + n.d], fired |-> TRUE, u_before |-> u1]
        ELSE [nrn |-> [n EXCEPT !.v = v1, !.u = u1], fired |-> FALSE, u_before |-> u1]

\* IzhikevichNeuron.step: the neuron after the call, the returned flag, and
\* u as it was just before the reset.
IzhikevichNeuron_step(n, dt, I) ==
    LET v1 == Euler(n.v, dt, dv_dt(n.v, n.u, I))
        u1 == Euler(n.u, dt, du_dt(n.a, n.b, v1, n.u))
    IN  IF v1 >= SpikeThreshold
        THEN [nrn |-> [n EXCEPT !.v = n.c, !.u = u1 + n.d], fired |-> TRUE, u_before |-> u1]
        ELSE [nrn |-> [n EXCEPT !.v = v1, !.u = u1], fired |-> FALSE, u_before |-> u1]

\* Number of channels of the array (len(params_list)).
Channels == 1 .. 3

\* IzhikevichNeuronArray.__init__ from a list of parameter records.  np.array
\* gives self.v the integer dtype when every v_init is a Python int, the
\* float dtype as soon as one of them is a float; u = b * v is float.
IzhikevichNeuronArray(params) ==
    [a |-> [i \in Channels |-> params[i].a],
     b |-> [i \in Channels |-> params[i].b],
     c |-> [i \in Channels |-> params[i].c],
     d |-> [i \in Channels |-> params[i].d],
     v |-> [i \in Channels |-> params[i].v_init],
     u |-> [i \in Channels |-> (params[i].b * params[i].v_init) \div 100],
     v_dtype |-> IF \A i \in Channels : params[i].v_init_type = "int"
                 THEN "int64" ELSE "float64"]

\* The outcome of an array step that raised at `self.v += dt * dv_dt`: the
\* in-place add of a float array into an integer array is refused, nothing
\* is written and no mask is returned.
StepRaised(B) ==
    [bnk |-> B, fired |-> [i \in Channels |-> FALSE], u_before |-> B.u, raised |-> TRUE]

\* IzhikevichNeuronArray.step: whole-array expressions, then the masked reset.
IzhikevichNeuronArray_step(B, dt, I_array) ==
    LET dv == [i \in Channels |-> dv_dt(B.v[i], B.u[i], I_array[i])]
        v1 == [i \in Channels |-> Euler(B.v[i], dt, dv[i])]
        du == [i \in Channels |-> du_dt(B.a[i], B.b[i], v1[i], B.u[i])]
        u1 == [i \in Channels |-> Euler(B.u[i], dt, du[i])]
        fired_mask == [i \in Channels |-> v1[i] >= SpikeThreshold]
    IN  IF B.v_dtype = "int64" THEN StepRaised(B) ELSE
        [bnk |-> [B EXCEPT
                    !.v = [i \in Channels |-> IF fired_mask[i] THEN B.c[i] ELSE v1[i]],
                    !.u = [i \in Channels |-> IF fired_mask[i] THEN u1[i] + B.d[i] ELSE u1[i]]],
         fired |-> fired_mask,
         u_before |-> u1,
         raised |-> FALSE]

\* Parameter sets the repository constructs neurons with
\* (spike_encoder.py:149-150, main.py:572-597).
NeuronParams ==
    { [a |-> 200,  b |-> 20, c |-> -6500, d |-> 800, v_init |-> -7000],
      [a |-> 1000, b |-> 20, c |-> -6500, d |-> 200, v_init |-> -7000],
      [a |-> 3000, b |-> 25, c |-> -6500, d |-> 600, v_init |-> -6500] }

\* main.py:572-597: SA, RA motion, RA click
BankParams ==
    <<[a |-> 500,  b |-> 25, c |-> -6500, d |-> 600, v_init |-> -7000, v_init_type |-> "float"],
      [a |-> 4000, b |-> 25, c |-> -6500, d |-> 150, v_init |-> -6500, v_init_type |-> "float"],
      [a |-> 3000, b |-> 25, c |-> -6500, d |-> 600, v_init |-> -6500, v_init_type |-> "float"]>>

\* The params_list of the class's own docstring:
\* {'a': 0.03, 'b': 0.25, 'c': -65, 'd': 6, 'v_init': -70} for each neuron.
DocstringParams ==
    [i \in Channels |->
        [a |-> 300, b |-> 25, c |-> -6500, d |-> 600, v_init |-> -7000, v_init_type |-> "int"]]

\* Time steps and input currents the callers pass.
Dts == {50, 100}
Currents == {0, 1200, 4000}
CurrentArrays ==
    { <<0, 0, 0>>, <<1200, 0, 4000>>, <<1200, 3000, 0>>, <<4000, 4000, 4000>> }

NoNeuron == [a |-> 0, b |-> 0, c |-> 0, d |-> 0, v |-> 0, u |-> 0]
NoOut    == [called |-> FALSE]

NeuronIdle ==
    /\ neuron = NoNeuron /\ nout = NoOut /\ bank = NoNeuron /\ bout = NoOut
    /\ ndt = 0 /\ nticks = 0

EncoderIdle ==
    /\ enc = NoNeuron /\ cfg = NoNeuron /\ loc = NoOut /\ last_op = "none" /\ eticks = 0

PiIdle == pi = NoOut

CommIdle == comm = NoOut

RendIdle == rend = NoOut

SimIdle == sim = NoOut

HistIdle == hist = NoOut

ProcIdle == proc = NoOut

BootIdle == boot = NoOut

PlayerIdle == player = NoOut

MatIdle == mat = NoOut

LaterIdle == HistIdle /\ ProcIdle /\ BootIdle /\ PlayerIdle /\ MatIdle

InitNeuron ==
    /\ \E p \in NeuronParams :
          neuron = IzhikevichNeuron(p.a, p.b, p.c, p.d, p.v_init)
    /\ nout = [called |-> FALSE, fired |-> FALSE, u_before |-> 0]
    /\ bank = IzhikevichNeuronArray(BankParams)
    /\ bout = [called |-> FALSE,
               fired |-> [i \in Channels |-> FALSE],
               u_before |-> [i \in Channels |-> 0]]
    /\ ndt \in Dts
    /\ nticks = 0
    /\ EncoderIdle
    /\ PiIdle
    /\ CommIdle
    /\ RendIdle
    /\ SimIdle
    /\ LaterIdle

\* A caller steps the single neuron.
NeuronStep ==
    /\ nticks < MaxNeuronTicks
    /\ \E I \in Currents :
          LET r == IzhikevichNeuron_step(neuron, ndt, I)
          IN  /\ neuron' = r.nrn
              /\ nout' = [called |-> TRUE, fired |-> r.fired, u_before |-> r.u_before]
    /\ nticks' = nticks + 1
    /\ UNCHANGED <<bank, bout, ndt, encoderVars, pi, comm, rend, sim, laterVars>>

\* A caller steps the array.
BankStep ==
    /\ nticks < MaxNeuronTicks
    /\ \E I_array \in CurrentArrays :
          LET r == IzhikevichNeuronArray_step(bank, ndt, I_array)
          IN  /\ ~r.raised
              /\ bank' = r.bnk
              /\ bout' = [called |-> TRUE, fired |-> r.fired, u_before |-> r.u_before]
    /\ nticks' = nticks + 1
    /\ UNCHANGED <<neuron, nout, ndt, encoderVars, pi, comm, rend, sim, laterVars>>

NextNeuron == NeuronStep \/ BankStep

SpecNeuron == InitNeuron /\ [][NextNeuron]_vars

\* C1: after every IzhikevichNeuron.step, and for every channel of
\* IzhikevichNeuronArray.step, with reset value c < 30, exactly one of two
\* cases holds: fired is false and v < 30, or fired is true, v = c and
\* u = u_before + d (u_before: u just before the reset of that call).
C1_ThresholdInvariant ==
    /\ (nout.called /\ neuron.c < SpikeThreshold) =>
          (  (~nout.fired /\ neuron.v < SpikeThreshold)
           \/ (nout.fired /\ neuron.v = neuron.c /\ neuron.u = nout.u_before + neuron.d))
    /\ bout.called =>
          \A i \in Channels : bank.c[i] < SpikeThreshold =>
              (  (~bout.fired[i] /\ bank.v[i] < SpikeThreshold)
               \/ (bout.fired[i] /\ bank.v[i] = bank.c[i]
                     /\ bank.u[i] = bout.u_before[i] + bank.d[i]))

\* Both a single neuron and a channel of the array have fired, and another
\* channel of the same array call has not.
C1_Witness ==
    /\ nout.called /\ nout.fired
    /\ bout.called
    /\ \E i, j \in Channels : bout.fired[i] /\ ~bout.fired[j]

-----------------------------------------------------------------------------
(* spike_encoder.py                                                        *)

\* Bounds: SpikeEncoder.step calls per behaviour, and the largest configured
\* RA_SUSTAIN_DURATION.
MaxEncTicks == 3
MaxDur == 2

\* abs(input_delta_sa) > 0.1
ChangeEpsilon == 10

\* np.clip(x, lo, hi): minimum(maximum(x, lo), hi)
np_clip(x, lo, hi) ==
    LET m == IF x < lo THEN lo ELSE x
    IN  IF m > hi THEN hi ELSE m

\* SpikeEncoder.__init__
SpikeEncoder(sa_params, ra_params) ==
    [sa |-> IzhikevichNeuron(sa_params.a, sa_params.b, sa_params.c, sa_params.d,
                             sa_params.v_init),
     ra |-> IzhikevichNeuron(ra_params.base_a, ra_params.base_b, ra_params.base_c,
                             ra_params.base_d, ra_params.v_init),
     input_mag_sa |-> 0,
     prev_input_mag_sa_for_ra |-> 0,
     ra_sustained_click_input |-> 0,
     ra_sustain_counter |-> 0]

\* The constructor arguments of the module's own example (spike_encoder.py:149-160)
sa_params_ex == [a |-> 200, b |-> 20, c |-> -6500, d |-> 800, v_init |-> -7000,
                 init_a |-> 200]
ra_params_ex == [base_a |-> 1000, base_b |-> 20, base_c |-> -6500, base_d |-> 200,
                 v_init |-> -7000, click_d_burst |-> 1000]
input_config_ex(dur) ==
    [sa_init_a |-> sa_params_ex.init_a,
     ra_base_d |-> ra_params_ex.base_d,
     ra_click_d_burst |-> ra_params_ex.click_d_burst,
     neuron_dt_ms |-> 100,
     ra_scl_chg |-> 2000,
     ra_scl_spd_dev |-> 2,
     ra_clip_min |-> -3000,
     ra_clip_max |-> 3000,
     RA_SUSTAIN_DURATION |-> dur,
     ra_min_spd_for_input |-> 100]

\* update_sa_input that resets a on every call, release included.
update_sa_input_always_resets(e, c, click_magnitude) ==
    [e EXCEPT !.input_mag_sa = click_magnitude, !.sa.a = c.sa_init_a]

\* update_sa_input that also remembers the magnitude it replaces as the
\* previous one, so that a step compares against the last call, not the last step.
update_sa_input_moves_prev(e, c, click_magnitude) ==
    IF click_magnitude > 0
    THEN [e EXCEPT !.prev_input_mag_sa_for_ra = e.input_mag_sa,
                   !.input_mag_sa = click_magnitude, !.sa.a = c.sa_init_a]
    ELSE [e EXCEPT !.prev_input_mag_sa_for_ra = e.input_mag_sa,
                   !.input_mag_sa = click_magnitude]

\* SpikeEncoder.update_sa_input
update_sa_input(e, c, click_magnitude) ==
    IF click_magnitude > 0
    THEN [e EXCEPT !.input_mag_sa = click_magnitude, !.sa.a = c.sa_init_a]
    ELSE [e EXCEPT !.input_mag_sa = click_magnitude]

\* An SA step without the long-term adaptation: a spike leaves a as it is.
StepSA_no_adaptation(e, c) ==
    LET r == IzhikevichNeuron_step(e.sa, c.neuron_dt_ms, e.input_mag_sa)
    IN  [e |-> [e EXCEPT !.sa = r.nrn],
         sa_fired |-> r.fired,
         sa_I |-> e.input_mag_sa]

\* SpikeEncoder.step, lines 85-91: the SA neuron is stepped with the held
\* magnitude; a spike divides its a by 1.05.
StepSA(e, c) ==
    LET r == IzhikevichNeuron_step(e.sa, c.neuron_dt_ms, e.input_mag_sa)
    IN  [e |-> [e EXCEPT !.sa = IF r.fired
                                 THEN [r.nrn EXCEPT !.a = (r.nrn.a * 100) \div 105]
                                 ELSE r.nrn],
         sa_fired |-> r.fired,
         sa_I |-> e.input_mag_sa]

\* Arming that looks at the signed delta: a release is not detected.
ArmClick_rising_only(e, c) ==
    LET input_delta_sa == e.input_mag_sa - e.prev_input_mag_sa_for_ra
    IN  IF input_delta_sa > ChangeEpsilon
        THEN [e EXCEPT !.ra_sustained_click_input =
                            (Abs(input_delta_sa) * c.ra_scl_chg) \div 100,
                       !.ra_sustain_counter = c.RA_SUSTAIN_DURATION,
                       !.ra.d = c.ra_click_d_burst]
        ELSE e

\* Arming that forgets to switch the RA neuron's d to the burst value.
ArmClick_no_burst_d(e, c) ==
    LET input_delta_sa == e.input_mag_sa - e.prev_input_mag_sa_for_ra
    IN  IF Abs(input_delta_sa) > ChangeEpsilon
        THEN [e EXCEPT !.ra_sustained_click_input =
                            (Abs(input_delta_sa) * c.ra_scl_chg) \div 100,
                       !.ra_sustain_counter = c.RA_SUSTAIN_DURATION]
        ELSE e

\* SpikeEncoder.step, lines 93-104: a change of the held magnitude arms the burst.
ArmClick(e, c) ==
    LET input_delta_sa == e.input_mag_sa - e.prev_input_mag_sa_for_ra
    IN  IF Abs(input_delta_sa) > ChangeEpsilon
        THEN [e EXCEPT !.ra_sustained_click_input =
                            (Abs(input_delta_sa) * c.ra_scl_chg) \div 100,
                       !.ra_sustain_counter = c.RA_SUSTAIN_DURATION,
                       !.ra.d = c.ra_click_d_burst]
        ELSE e

\* A countdown that tests "counter >= 0": it runs one step too long.
SustainClick_counts_below_zero(e, c) ==
    LET cur == IF e.ra_sustain_counter >= 0 THEN e.ra_sustained_click_input ELSE 0
        e1  == IF e.ra_sustain_counter >= 0
               THEN IF e.ra_sustain_counter - 1 = 0
                    THEN [e EXCEPT !.ra_sustain_counter = 0,
                                   !.ra_sustained_click_input = 0,
                                   !.ra.d = c.ra_base_d]
                    ELSE [e EXCEPT !.ra_sustain_counter = @ - 1]
               ELSE e
    IN  [e |-> [e1 EXCEPT !.prev_input_mag_sa_for_ra = e.input_mag_sa],
         current_ra_click_input |-> cur]

\* A countdown that does not store the held magnitude for the next step.
SustainClick_keeps_prev(e, c) ==
    LET cur == IF e.ra_sustain_counter > 0 THEN e.ra_sustained_click_input ELSE 0
        e1  == IF e.ra_sustain_counter > 0
               THEN IF e.ra_sustain_counter - 1 = 0
                    THEN [e EXCEPT !.ra_sustain_counter = 0,
                                   !.ra_sustained_click_input = 0,
                                   !.ra.d = c.ra_base_d]
                    ELSE [e EXCEPT !.ra_sustain_counter = @ - 1]
               ELSE e
    IN  [e |-> e1, current_ra_click_input |-> cur]

\* SpikeEncoder.step, lines 106-119: the sustained input of this tick, the
\* countdown, the restore at zero, and the stored previous magnitude.
SustainClick(e, c) ==
    LET cur == IF e.ra_sustain_counter > 0 THEN e.ra_sustained_click_input ELSE 0
        e1  == IF e.ra_sustain_counter > 0
               THEN IF e.ra_sustain_counter - 1 = 0
                    THEN [e EXCEPT !.ra_sustain_counter = 0,
                                   !.ra_sustained_click_input = 0,
                                   !.ra.d = c.ra_base_d]
                    ELSE [e EXCEPT !.ra_sustain_counter = @ - 1]
               ELSE e
    IN  [e |-> [e1 EXCEPT !.prev_input_mag_sa_for_ra = e.input_mag_sa],
         current_ra_click_input |-> cur]

\* Motion input gated by the speed alone.
MotionInput_speed_only(c, mouse_speed, material_roughness, mouse_pressed) ==
    IF mouse_speed > c.ra_min_spd_for_input
    THEN (((mouse_speed * material_roughness) \div 100) * c.ra_scl_spd_dev) \div 100
    ELSE 0

\* SpikeEncoder.step, lines 121-128
MotionInput(c, mouse_speed, material_roughness, mouse_pressed) ==
    IF mouse_pressed /\ mouse_speed > c.ra_min_spd_for_input
    THEN (((mouse_speed * material_roughness) \div 100) * c.ra_scl_spd_dev) \div 100
    ELSE 0

\* Each current clipped on its own, then added.
FinalRaInput_clip_each(c, current_ra_click_input, ra_I_mot) ==
    np_clip(current_ra_click_input, c.ra_clip_min, c.ra_clip_max)
        + np_clip(ra_I_mot, c.ra_clip_min, c.ra_clip_max)

\* The sum passed on without clipping.
FinalRaInput_unclipped(c, current_ra_click_input, ra_I_mot) ==
    current_ra_click_input + ra_I_mot

\* SpikeEncoder.step, lines 130-134
FinalRaInput(c, current_ra_click_input, ra_I_mot) ==
    np_clip(current_ra_click_input + ra_I_mot, c.ra_clip_min, c.ra_clip_max)

\* SpikeEncoder.step: the encoder after the call, with the call's locals.
SpikeEncoder_step(e, c, mouse_speed, material_roughness, mouse_pressed) ==
    LET s1 == StepSA(e, c)
        e2 == ArmClick(s1.e, c)
        s3 == SustainClick(e2, c)
        ra_I_mot == MotionInput(c, mouse_speed, material_roughness, mouse_pressed)
        final_ra_I == FinalRaInput(c, s3.current_ra_click_input, ra_I_mot)
        r == IzhikevichNeuron_step(s3.e.ra, c.neuron_dt_ms, final_ra_I)
    IN  [e |-> [s3.e EXCEPT !.ra = r.nrn],
         loc |-> [sa_fired |-> s1.sa_fired,
                  ra_fired |-> r.fired,
                  sa_I |-> s1.sa_I,
                  input_delta_sa |-> s1.e.input_mag_sa - s1.e.prev_input_mag_sa_for_ra,
                  armed_counter |-> e2.ra_sustain_counter,
                  armed_input |-> e2.ra_sustained_click_input,
                  armed_d |-> e2.ra.d,
                  current_ra_click_input |-> s3.current_ra_click_input,
                  ra_I_mot |-> ra_I_mot,
                  final_ra_I |-> final_ra_I,
                  ra_d_at_step |-> s3.e.ra.d,
                  mouse_speed |-> mouse_speed,
                  material_roughness |-> material_roughness,
                  mouse_pressed |-> mouse_pressed]]

\* Magnitudes the callers hold: a negative one, released, a change of exactly
\* the epsilon, a light touch, click_mag 12.0, and a magnitude above the
\* configured clip range.
Magnitudes == {-500, 0, 10, 50, 1200, 4000}

\* Pointer states the callers pass: not pressed but moving, pressed at exactly
\* the minimum speed, pressed and moving on a smooth and on a rough material.
StepInputs ==
    { [mouse_speed |-> 200000, material_roughness |-> 120, mouse_pressed |-> FALSE],
      [mouse_speed |-> 100,    material_roughness |-> 120, mouse_pressed |-> TRUE],
      [mouse_speed |-> 200000, material_roughness |-> 60,  mouse_pressed |-> TRUE],
      [mouse_speed |-> 200000, material_roughness |-> 120, mouse_pressed |-> TRUE] }

NoLoc ==
    [sa_fired |-> FALSE, ra_fired |-> FALSE, sa_I |-> 0, input_delta_sa |-> 0,
     armed_counter |-> 0,
     armed_input |-> 0, armed_d |-> 0, current_ra_click_input |-> 0, ra_I_mot |-> 0,
     final_ra_I |-> 0, ra_d_at_step |-> 0, mouse_speed |-> 0,
     material_roughness |-> 0, mouse_pressed |-> FALSE]

InitEncoder ==
    /\ enc = SpikeEncoder(sa_params_ex, ra_params_ex)
    /\ \E dur \in 0 .. MaxDur : cfg = input_config_ex(dur)
    /\ loc = NoLoc
    /\ last_op = "init"
    /\ eticks = 0
    /\ NeuronIdle
    /\ PiIdle
    /\ CommIdle
    /\ RendIdle
    /\ SimIdle
    /\ LaterIdle

\* A press or release handler calls update_sa_input.
UpdateSaInput ==
    /\ eticks < MaxEncTicks
    /\ \E m \in Magnitudes : enc' = update_sa_input(enc, cfg, m)
    /\ last_op' = "update_sa_input"
    /\ UNCHANGED <<cfg, loc, eticks, neuronVars, pi, comm, rend, sim, laterVars>>

\* The simulation timer calls step.
EncoderStep ==
    /\ eticks < MaxEncTicks
    /\ \E in \in StepInputs :
          LET r == SpikeEncoder_step(enc, cfg, in.mouse_speed, in.material_roughness,
                                     in.mouse_pressed)
          IN  /\ enc' = r.e
              /\ loc' = r.loc
    /\ last_op' = "step"
    /\ eticks' = eticks + 1
    /\ UNCHANGED <<cfg, neuronVars, pi, comm, rend, sim, laterVars>>

NextEncoder == UpdateSaInput \/ EncoderStep

SpecEncoder == InitEncoder /\ [][NextEncoder]_vars

\* The step made by this transition is a SpikeEncoder.step call.
StepTaken == eticks' = eticks + 1

\* This transition is an update_sa_input call.
UpdateTaken == last_op' = "update_sa_input" /\ eticks' = eticks

\* |delta| * ra_scl_chg
ClickGain(delta) == (Abs(delta) * cfg.ra_scl_chg) \div 100

\* C2: with delta the held pressure magnitude minus the magnitude held at the
\* previous step: if |delta| > 0.1 the arming part of step sets the sustain
\* magnitude to |delta| * ra_scl_chg, the sustain counter to the configured
\* duration and the RA neuron's d to the burst value; otherwise it changes
\* none of the three.
C2_ArmOnChange ==
    [][StepTaken =>
        LET delta == enc.input_mag_sa - enc.prev_input_mag_sa_for_ra
        IN  IF Abs(delta) > ChangeEpsilon
            THEN /\ loc'.armed_input = ClickGain(delta)
                 /\ loc'.armed_counter = cfg.RA_SUSTAIN_DURATION
                 /\ loc'.armed_d = cfg.ra_click_d_burst
            ELSE /\ loc'.armed_input = enc.ra_sustained_click_input
                 /\ loc'.armed_counter = enc.ra_sustain_counter
                 /\ loc'.armed_d = enc.ra.d]_vars

\* A step has armed the burst on a release (negative delta).
C2_Witness ==
    /\ last_op = "step"
    /\ loc.input_delta_sa < 0 - ChangeEpsilon
    /\ loc.armed_input = ClickGain(loc.input_delta_sa)
    /\ loc.armed_counter = cfg.RA_SUSTAIN_DURATION
    /\ cfg.RA_SUSTAIN_DURATION > 0
    /\ loc.armed_d = cfg.ra_click_d_burst

\* C3 as claimed: once armed, the sustain counter decreases by exactly 1 on
\* every following step until it reaches 0.
C3_AlwaysCountsDown ==
    [][(StepTaken /\ enc.ra_sustain_counter > 0) =>
          enc'.ra_sustain_counter = enc.ra_sustain_counter - 1]_vars

\* C3 as amended: the sustain counter stays within 0 .. RA_SUSTAIN_DURATION;
\* update_sa_input never changes it; a step that detects no new edge
\* (|delta| <= 0.1) decreases a running counter by exactly 1 and leaves a
\* counter of 0 at 0; a step that detects a new edge re-arms it and leaves it
\* at the duration minus 1 (or at 0 for a duration of 0).
C3_CounterCountsDownUnlessRearmed ==
    /\ [](enc.ra_sustain_counter \in 0 .. cfg.RA_SUSTAIN_DURATION)
    /\ [][UpdateTaken => enc'.ra_sustain_counter = enc.ra_sustain_counter]_vars
    /\ [][StepTaken =>
            LET delta == enc.input_mag_sa - enc.prev_input_mag_sa_for_ra
            IN  enc'.ra_sustain_counter =
                  IF Abs(delta) > ChangeEpsilon
                  THEN (IF cfg.RA_SUSTAIN_DURATION > 0
                        THEN cfg.RA_SUSTAIN_DURATION - 1 ELSE 0)
                  ELSE (IF enc.ra_sustain_counter > 0
                        THEN enc.ra_sustain_counter - 1 ELSE 0)]_vars

\* A step re-armed the burst while the window of an earlier edge was still
\* running: the counter is where the previous step left it.
C3_Witness ==
    /\ last_op = "step"
    /\ eticks >= 2
    /\ Abs(loc.input_delta_sa) > ChangeEpsilon
    /\ cfg.RA_SUSTAIN_DURATION >= 2
    /\ enc.ra_sustain_counter = cfg.RA_SUSTAIN_DURATION - 1
    /\ enc.ra_sustained_click_input # 0
    /\ enc.ra_sustained_click_input # ClickGain(enc.input_mag_sa)

\* C4: at the end of every step in which the sustain counter is 0, the RA
\* neuron's d is ra_base_d and the stored sustain magnitude is 0, for every
\* configured sustain duration.
C4_RestoredAtZero ==
    (eticks > 0 /\ enc.ra_sustain_counter = 0) =>
        (enc.ra.d = cfg.ra_base_d /\ enc.ra_sustained_click_input = 0)

\* SimpleHapticSystem.step, lines 107-112 of simple_haptic_demo.py: the RA
\* input (threshold 1.0, ra_speed_scale 0.02, clipped to [-30, 30]).
SimpleHapticSystem_ra_input(mouse_pressed, mouse_speed, roughness) ==
    IF mouse_pressed /\ mouse_speed > 100
    THEN np_clip((((mouse_speed * roughness) \div 100) * 2) \div 100, -3000, 3000)
    ELSE 0

\* The product pointer_speed * material_roughness * ra_scl_spd_dev of the last step
MotionProduct ==
    (((loc.mouse_speed * loc.material_roughness) \div 100) * cfg.ra_scl_spd_dev) \div 100

\* C5: in every step the motion current is speed * roughness * gain when
\* pressed is true and the speed is strictly above the minimum-speed
\* threshold, and exactly 0 in every other case; pressed = false gives 0 for
\* every speed and roughness.
C5_MotionGating ==
    eticks > 0 =>
        /\ (loc.mouse_pressed /\ loc.mouse_speed > cfg.ra_min_spd_for_input)
              => loc.ra_I_mot = MotionProduct
        /\ ~(loc.mouse_pressed /\ loc.mouse_speed > cfg.ra_min_spd_for_input)
              => loc.ra_I_mot = 0
        /\ ~loc.mouse_pressed => loc.ra_I_mot = 0
        /\ SimpleHapticSystem_ra_input(loc.mouse_pressed, loc.mouse_speed,
                                       loc.material_roughness)
              = np_clip(loc.ra_I_mot, -3000, 3000)

\* Scenario B: a step with pressed = false and speed 2000 on the roughest material.
C5_Witness ==
    /\ last_op = "step"
    /\ ~loc.mouse_pressed
    /\ loc.mouse_speed = 200000
    /\ MotionProduct > 0
    /\ loc.ra_I_mot = 0

C7_ReleaseAlwaysArms ==
    [][(StepTaken /\ enc.prev_input_mag_sa_for_ra # 0 /\ enc.input_mag_sa = 0) =>
          /\ loc'.armed_counter = cfg.RA_SUSTAIN_DURATION
          /\ loc'.armed_input = ClickGain(enc.prev_input_mag_sa_for_ra)
          /\ loc'.armed_d = cfg.ra_click_d_burst]_vars

\* C7 as amended: whenever the magnitude held at the previous step exceeded
\* the epsilon 0.1 in absolute value and the magnitude now held is 0, the
\* step arms the burst (counter = duration, sustain magnitude = |previous| *
\* ra_scl_chg, d = burst), and with a duration of at least 1 the click current
\* of that step is the sustain magnitude: the RA neuron receives it, clipped
\* together with the motion current.
C7_ReleaseEdgeArms ==
    [][(StepTaken /\ Abs(enc.prev_input_mag_sa_for_ra) > ChangeEpsilon
                  /\ enc.input_mag_sa = 0) =>
          /\ loc'.armed_counter = cfg.RA_SUSTAIN_DURATION
          /\ loc'.armed_input = ClickGain(enc.prev_input_mag_sa_for_ra)
          /\ loc'.armed_d = cfg.ra_click_d_burst
          /\ cfg.RA_SUSTAIN_DURATION >= 1 =>
                /\ loc'.current_ra_click_input = ClickGain(enc.prev_input_mag_sa_for_ra)
                /\ loc'.final_ra_I =
                      np_clip(ClickGain(enc.prev_input_mag_sa_for_ra) + loc'.ra_I_mot,
                              cfg.ra_clip_min, cfg.ra_clip_max)]_vars

\* A press at 12.0 was stepped, then released to 0.0, and the next step fed
\* the click current |12.0| * ra_scl_chg again.
C7_Witness ==
    /\ last_op = "step"
    /\ eticks >= 2
    /\ loc.input_delta_sa = 0 - 1200
    /\ enc.input_mag_sa = 0
    /\ loc.current_ra_click_input = ClickGain(1200)
    /\ loc.armed_d = cfg.ra_click_d_burst

\* C8: update_sa_input(m) stores m as the held magnitude, sets the SA
\* neuron's a to init_a if m > 0 and leaves a unchanged if m <= 0, and
\* changes nothing else.
C8_UpdateFrame ==
    [][UpdateTaken =>
          /\ enc'.input_mag_sa \in Magnitudes
          /\ enc'.sa.a = IF enc'.input_mag_sa > 0 THEN cfg.sa_init_a ELSE enc.sa.a
          /\ enc'.sa = [enc.sa EXCEPT !.a = enc'.sa.a]
          /\ enc'.ra = enc.ra
          /\ enc'.prev_input_mag_sa_for_ra = enc.prev_input_mag_sa_for_ra
          /\ enc'.ra_sustained_click_input = enc.ra_sustained_click_input
          /\ enc'.ra_sustain_counter = enc.ra_sustain_counter
          /\ UNCHANGED <<cfg, loc>>]_vars

\* A positive update_sa_input after an SA spike had lowered a: a is back at
\* init_a while the spike's other effects are still there.
C8_Witness ==
    /\ last_op = "update_sa_input"
    /\ loc.sa_fired
    /\ enc.input_mag_sa > 0
    /\ enc.input_mag_sa # enc.prev_input_mag_sa_for_ra
    /\ enc.sa.a = cfg.sa_init_a
    /\ enc.sa.v = enc.sa.c

\* C9 as claimed: every current step passes to a neuron, the SA neuron's
\* included, lies inside the configured [min, max] range.
C9_AllCurrentsClamped ==
    eticks > 0 =>
        /\ cfg.ra_clip_min <= loc.final_ra_I /\ loc.final_ra_I <= cfg.ra_clip_max
        /\ cfg.ra_clip_min <= loc.sa_I /\ loc.sa_I <= cfg.ra_clip_max

\* C9 as amended: the current step passes to the RA neuron lies inside
\* [ra_clip_min, ra_clip_max] whatever magnitude, speed and roughness are
\* supplied; the current it passes to the SA neuron is the held pressure
\* magnitude itself, unclamped.
C9_RaCurrentClamped ==
    eticks > 0 =>
        /\ cfg.ra_clip_min <= loc.final_ra_I /\ loc.final_ra_I <= cfg.ra_clip_max
        /\ loc.sa_I = enc.prev_input_mag_sa_for_ra

\* A step whose summed RA current was above the range and was clamped, while
\* the SA neuron received a magnitude above the range.
C9_Witness ==
    /\ last_op = "step"
    /\ loc.current_ra_click_input + loc.ra_I_mot > cfg.ra_clip_max
    /\ loc.final_ra_I = cfg.ra_clip_max
    /\ loc.sa_I > cfg.ra_clip_max

-----------------------------------------------------------------------------
(* pi/spike_haptic_raspi.py                                                *)

\* Bound: datagrams received per behaviour.
MaxDatagrams == 3

\* Datagram payloads, named by what they hold:
\*   play_sa     {"command":"play","types":"sa","channel_id":0,"volume":1.0}
\*   play_ra     {"command":"play","types":"ra","channel_id":1,"volume":1.0}
\*   change_a    {"command":"change","hz":50,"ms":70,"amp":0.7,"fade_out_ms":5}
\*   change_b    {"command":"change","hz":35,"ms":90,"amp":0.6,"fade_out_ms":10}
\*   reset_json  {"command":"reset"}
\*   no_command  {"volume":1.0}
\*   json_list   [1,2]
\*   reset_bare  reset            (what send_data_reset_signal sends)
\*   garbage     {"command":      (cut short)
\*   bad_utf8    the single byte 0xff
Payloads == { "play_sa", "play_ra", "change_a", "change_b", "reset_json",
              "no_command", "json_list", "reset_bare", "garbage", "bad_utf8" }

\* data.decode("utf-8") succeeds
decode_utf8_ok(p) == p # "bad_utf8"

\* json.loads accepts the decoded text
json_loads_ok(p) ==
    p \in { "play_sa", "play_ra", "change_a", "change_b", "reset_json",
            "no_command", "json_list" }

\* The value json.loads returns for an accepted text.
json_loads(p) ==
    CASE p = "play_sa"    -> [type |-> "dict", command |-> "play", types |-> "sa", hz |-> 0]
      [] p = "play_ra"    -> [type |-> "dict", command |-> "play", types |-> "ra", hz |-> 0]
      [] p = "change_a"   -> [type |-> "dict", command |-> "change", types |-> "", hz |-> 50]
      [] p = "change_b"   -> [type |-> "dict", command |-> "change", types |-> "", hz |-> 35]
      [] p = "reset_json" -> [type |-> "dict", command |-> "reset", types |-> "", hz |-> 0]
      [] p = "no_command" -> [type |-> "dict", command |-> "", types |-> "", hz |-> 0]
      [] p = "json_list"  -> [type |-> "list", command |-> "", types |-> "", hz |-> 0]

\* The local msg before the first successful json.loads
Unbound == [type |-> "unbound", command |-> "", types |-> "", hz |-> 0]

\* The receive thread ends with an uncaught exception.
Raise(st, p, exc) ==
    [st EXCEPT !.alive = FALSE, !.crash = exc, !.handled = @ + 1,
               !.last = [payload |-> p, effect |-> "none"]]

\* The loop iteration ends after performing effect; the log keeps the
\* commands executed, with the hz of the message they were read from.
Done(st, p, effect) ==
    [st EXCEPT !.handled = @ + 1,
               !.log = IF effect = "none" THEN @
                       ELSE Append(@, [effect |-> effect, hz |-> st.msg.hz]),
               !.last = [payload |-> p, effect |-> effect]]

\* What play_sound was handed: self.sa_sound as initSoundObject made it, or
\* self.ra_sound as the last create_sound_object call made it.
NoSound == [which |-> "none", hz |-> 0]
SaStartupSound == [which |-> "sa_startup", hz |-> 0]
RaStartupSound == [which |-> "ra_startup", hz |-> 0]
RaChangedSound(hz) == [which |-> "ra_changed", hz |-> hz]

\* callback_message, lines 62-73: the dispatch on msg, whatever msg holds.
Dispatch(st, p) ==
    LET msg == st.msg
    IN  CASE msg.type = "unbound" -> Raise(st, p, "UnboundLocalError")
          [] msg.type = "list"    -> Raise(st, p, "AttributeError")
          [] OTHER ->
               IF msg.command = "play" THEN
                    IF msg.types = "sa"
                    THEN Done([st EXCEPT !.played = SaStartupSound], p, "play_sa")
                    ELSE IF msg.types = "ra" THEN
                         IF ~st.ra_sound.assigned
                         THEN Raise(st, p, "AttributeError")
                         ELSE Done([st EXCEPT !.played = RaChangedSound(st.ra_sound.hz)],
                                   p, "play_ra")
                    ELSE Done(st, p, "none")
               ELSE IF msg.command = "change"
                    THEN Done([st EXCEPT !.ra_sound = [assigned |-> TRUE, hz |-> msg.hz]],
                              p, "change")
               ELSE IF msg.command = "reset" THEN Done(st, p, "reset")
               ELSE Done(st, p, "none")

\* callback_message, lines 41-73: one iteration of the receive loop on the
\* datagram recvfrom returned.
callback_message(st, p) ==
    IF ~decode_utf8_ok(p) THEN Raise(st, p, "UnicodeDecodeError")
    ELSE IF json_loads_ok(p) THEN Dispatch([st EXCEPT !.msg = json_loads(p)], p)
    ELSE Dispatch(st, p)

\* SpikeHapticPi after __init__ has returned: the thread runs, msg is not
\* yet bound, sa_sound is the start-up buffer and ra_sound was never assigned.
InitPi ==
    /\ pi = [alive |-> TRUE, stop |-> FALSE, crash |-> "none", msg |-> Unbound,
             sa_sound |-> "startup", ra_sound |-> [assigned |-> FALSE, hz |-> 0],
             played |-> NoSound, log |-> <<>>, handled |-> 0,
             last |-> [payload |-> "", effect |-> "none"]]
    /\ NeuronIdle
    /\ EncoderIdle
    /\ CommIdle
    /\ RendIdle
    /\ SimIdle
    /\ LaterIdle

\* The receive thread takes a datagram and handles it.
Receive ==
    /\ pi.alive
    /\ pi.handled < MaxDatagrams
    /\ \E p \in Payloads : pi' = callback_message(pi, p)
    /\ UNCHANGED <<neuronVars, encoderVars, comm, rend, sim, laterVars>>

\* close(): _stop is set and the loop ends at its next test.
Close ==
    /\ pi.alive
    /\ pi' = [pi EXCEPT !.stop = TRUE, !.alive = FALSE]
    /\ UNCHANGED <<neuronVars, encoderVars, comm, rend, sim, laterVars>>

NextPi == Receive \/ Close

SpecPi == InitPi /\ [][NextPi]_vars

\* C10: a datagram whose payload is not valid JSON causes no command to be
\* executed (not even the command of an earlier datagram again), and the
\* receive thread keeps running: no inbound payload terminates it.
C10_MalformedDropped ==
    (pi.handled > 0 /\ ~(decode_utf8_ok(pi.last.payload) /\ json_loads_ok(pi.last.payload)))
        => (pi.last.effect = "none" /\ pi.crash = "none")

\* The last datagram handled holds valid JSON with this command.
LastCommandIs(cmd) ==
    /\ pi.handled > 0
    /\ decode_utf8_ok(pi.last.payload) /\ json_loads_ok(pi.last.payload)
    /\ json_loads(pi.last.payload).type = "dict"
    /\ json_loads(pi.last.payload).command = cmd

\* C11: a datagram whose payload is the bare byte string reset, as
\* send_data_reset_signal sends it, triggers the reset action (once), as a
\* JSON message with command reset does, and the receive thread survives it.
C11_BareResetAccepted ==
    /\ (pi.handled > 0 /\ pi.last.payload = "reset_bare")
          => (pi.last.effect = "reset" /\ pi.crash = "none")
    /\ LastCommandIs("reset") => pi.last.effect = "reset"

\* The hz of the most recent change command in the log, 0 when there is none.
RECURSIVE LastChangeHz(_)
LastChangeHz(log) ==
    IF log = <<>> THEN 0
    ELSE IF log[Len(log)].effect = "change" THEN log[Len(log)].hz
    ELSE LastChangeHz(SubSeq(log, 1, Len(log) - 1))

HasChange(log) == \E i \in 1 .. Len(log) : log[i].effect = "change"

\* C12: a play command with types ra plays the active RA buffer, which is
\* the start-up buffer while no change command has been processed and the
\* buffer of the most recent change command afterwards; a play command with
\* types sa plays the start-up SA buffer; neither ends the receive thread.
C12_PlaysActiveBuffer ==
    LastCommandIs("play") =>
        /\ pi.crash = "none"
        /\ json_loads(pi.last.payload).types = "sa" => pi.played = SaStartupSound
        /\ json_loads(pi.last.payload).types = "ra" =>
              pi.played = IF HasChange(pi.log)
                          THEN RaChangedSound(LastChangeHz(pi.log))
                          ELSE RaStartupSound

-----------------------------------------------------------------------------
(* ClassCommunication.py                                                   *)

\* Bound: calls made on the CommunicationModule per behaviour.
MaxSends == 3

\* len(payload) > 65_507
MaxUdpPayload == 65507

\* Messages the callers pass to send_json, each with the number of characters
\* of its compact JSON text: a play command, a change command, and messages
\* padded to one byte below the limit, the limit, one byte above it, and far
\* above it.
Messages ==
    { [id |-> "play",   chars |-> 58],
      [id |-> "change", chars |-> 61],
      [id |-> "pad_below", chars |-> MaxUdpPayload - 1],
      [id |-> "pad_limit", chars |-> MaxUdpPayload],
      [id |-> "pad_above", chars |-> MaxUdpPayload + 1],
      [id |-> "pad_far",   chars |-> 70000] }

\* json.dumps(msg_dict, separators=(",", ":")).encode("utf-8"): json.dumps
\* escapes every non-ASCII character, so each character is one byte.
json_dumps_encode(msg_dict) == [id |-> msg_dict.id, bytes |-> msg_dict.chars]

\* udp_sock.sendto(payload, udp_bind): one datagram with these bytes.
sendto(c, payload) == [c EXCEPT !.sent = Append(@, payload)]

\* send_json that hands the first 65,507 bytes to the socket and then raises.
send_json_truncates(c, msg_dict) ==
    LET payload == json_dumps_encode(msg_dict)
    IN  IF payload.bytes > MaxUdpPayload
        THEN [sendto(c, [payload EXCEPT !.bytes = MaxUdpPayload])
                EXCEPT !.result = "ValueError", !.arg = msg_dict, !.calls = @ + 1]
        ELSE [sendto(c, payload) EXCEPT !.result = "ok", !.arg = msg_dict, !.calls = @ + 1]

\* CommunicationModule.send_json
send_json(c, msg_dict) ==
    LET payload == json_dumps_encode(msg_dict)
    IN  IF payload.bytes > MaxUdpPayload
        THEN [c EXCEPT !.result = "ValueError", !.arg = msg_dict, !.calls = @ + 1]
        ELSE [sendto(c, payload) EXCEPT !.result = "ok", !.arg = msg_dict, !.calls = @ + 1]

\* CommunicationModule.send_data_reset_signal: the five bytes of "reset"
send_data_reset_signal(c) ==
    [sendto(c, [id |-> "reset_bare", bytes |-> 5])
        EXCEPT !.result = "ok", !.arg = [id |-> "reset_bare", chars |-> 5],
               !.calls = @ + 1]

\* CommunicationModule.__init__: nothing sent yet.
InitComm ==
    /\ comm = [sent |-> <<>>, result |-> "none", arg |-> [id |-> "", chars |-> 0],
               calls |-> 0]
    /\ NeuronIdle
    /\ EncoderIdle
    /\ PiIdle
    /\ RendIdle
    /\ SimIdle
    /\ LaterIdle

\* A caller sends a message.
SendJson ==
    /\ comm.calls < MaxSends
    /\ \E msg_dict \in Messages : comm' = send_json(comm, msg_dict)
    /\ UNCHANGED <<neuronVars, encoderVars, pi, rend, sim, laterVars>>

\* A caller sends the reset signal.
SendDataResetSignal ==
    /\ comm.calls < MaxSends
    /\ comm' = send_data_reset_signal(comm)
    /\ UNCHANGED <<neuronVars, encoderVars, pi, rend, sim, laterVars>>

NextComm == SendJson \/ SendDataResetSignal

SpecComm == InitComm /\ [][NextComm]_vars

\* This transition is a send_json call.
SendJsonTaken == comm'.calls = comm.calls + 1 /\ comm'.arg.id # "reset_bare"

\* C13: send_json of a message whose encoded payload is longer than 65,507
\* bytes raises the size error and hands no datagram to the socket; a payload
\* of at most 65,507 bytes is handed over as exactly one datagram holding the
\* whole payload.
C13_OversizeRejected ==
    [][SendJsonTaken =>
          LET payload == json_dumps_encode(comm'.arg)
          IN  IF payload.bytes > MaxUdpPayload
              THEN comm'.result = "ValueError" /\ comm'.sent = comm.sent
              ELSE comm'.result = "ok" /\ comm'.sent = Append(comm.sent, payload)]_vars

\* A payload of exactly 65,507 bytes went out whole, and a later one of
\* 65,508 bytes was rejected without a datagram.
C13_Witness ==
    /\ comm.result = "ValueError"
    /\ comm.arg.chars = MaxUdpPayload + 1
    /\ Len(comm.sent) = 1
    /\ comm.sent[1].bytes = MaxUdpPayload

-----------------------------------------------------------------------------
(* haptic_renderer.py (pi/player.py holds the same generators)             *)
(*                                                                         *)
(* Reals of this section are thousandths: amplitudes, envelope gains, the  *)
(* signal before quantising and the shape parameters (amp = 500 is 0.5).   *)
(* Durations are hundredths of a millisecond, times are in units of 10     *)
(* microseconds, frequencies are in Hz and frequency multipliers in        *)
(* thousandths, phases are thousandths of a cycle.  np.sin and np.exp are  *)
(* computed by rational approximations, np.random.normal by a table.       *)

\* Bound: synthesis calls per behaviour.
MaxSynth == 2

\* HapticRenderer(sample_rate=10000)
sample_rate == 10000

\* np.ones(50)/50: the length of the smoothing kernel of the glass noise
GlassKernel == 50

\* int(x), x / y rounded toward zero
TruncDiv(x, y) == IF x >= 0 THEN x \div y ELSE 0 - ((0 - x) \div y)

\* The product of two values in thousandths.
Mul(x, y) == TruncDiv(x * y, 1000)

\* int(self.sample_rate * (ms / 1000.0))
n_samples(ms) == TruncDiv(sample_rate * ms, 100000)

\* np.linspace(0, ms / 1000.0, n_s, False)[i]
linspace_t(ms, n_s, i) == (i * ms) \div n_s

\* np.linspace(1, 0, n)[j]
linspace_1_0(n, j) == IF n = 1 THEN 1000 ELSE 1000 - (1000 * j) \div (n - 1)

\* np.linspace(0, 1, n)[j]
linspace_0_1(n, j) == IF n = 1 THEN 0 ELSE (1000 * j) \div (n - 1)

\* The sine of half a cycle (Bhaskara's approximation), p in 0 .. 500
half_sine(p) == (16000 * p * (500 - p)) \div (1250000 - 4 * p * (500 - p))

\* np.sin(2 * np.pi * hz * mult * t)
np_sin(hz, mult, t) ==
    LET p == ((hz * mult * t) \div 100000) % 1000
    IN  IF p < 500 THEN half_sine(p) ELSE 0 - half_sine(p - 500)

\* np.sign
np_sign(x) == IF x > 0 THEN 1000 ELSE IF x < 0 THEN -1000 ELSE 0

\* np.exp(-x) for x >= 0: 1 / (1 + x + x^2/2 + x^3/6)
np_exp_neg(x) ==
    LET x2 == (x * x) \div 1000
        x3 == (x2 * x) \div 1000
    IN  1000000 \div (1000 + x + x2 \div 2 + x3 \div 6)

\* np.random.normal(0, 1, n) from the generator state rng: the samples drawn
\* and the state afterwards.
NoiseTable == <<300, -1200, 1800, -500, 900, -2100, 100>>
np_random_normal(rng, n) ==
    [k \in 1 .. n |-> NoiseTable[((rng + k - 1) % Len(NoiseTable)) + 1]]
rng_after(rng, n) == (rng + n) % Len(NoiseTable)

\* x.astype(np.int16) of a float: toward zero when it fits; outside the
\* range the C conversion is undefined, and a build wraps or saturates.
astype_int16(cast, x) ==
    IF -32768 <= x /\ x <= 32767 THEN x
    ELSE IF cast = "wrap" THEN ((x + 32768) % 65536) - 32768
    ELSE IF x > 32767 THEN 32767 ELSE -32768

\* (wave_data * 32767).astype(np.int16)
Quantise(cast, wave_data) ==
    [k \in DOMAIN wave_data |-> astype_int16(cast, TruncDiv(wave_data[k] * 32767, 1000))]

\* np.clip(wave_data, -1, 1)
ClipWave(wave_data) == [k \in DOMAIN wave_data |-> np_clip(wave_data[k], -1000, 1000)]

\* wave_data[:attack_samples] *= np.linspace(0, 1, attack_samples), made when
\* attack_samples < n_s; attack_ms is the attack time in hundredths of a ms.
Attack(wave_data, n_s, attack_ms) ==
    LET attack_samples == TruncDiv(sample_rate * attack_ms, 100000)
    IN  IF attack_samples < n_s
        THEN [k \in 1 .. n_s |->
                 IF k <= attack_samples
                 THEN Mul(wave_data[k], linspace_0_1(attack_samples, k - 1))
                 ELSE wave_data[k]]
        ELSE wave_data

NoFade == [applied |-> FALSE, from |-> 0, len |-> 0]

\* wave_data[n_s - fade_out_samples:] *= np.linspace(1, 0, fade_out_samples)
ApplyFade(wave_data, n_s, fade_out_samples) ==
    [k \in 1 .. n_s |->
        IF k > n_s - fade_out_samples
        THEN Mul(wave_data[k], linspace_1_0(fade_out_samples, k - (n_s - fade_out_samples) - 1))
        ELSE wave_data[k]]

\* The fade-out block of create_sound_buffer and of every material but metal:
\* the wave afterwards and the index range that was faded.
FadeOut(wave_data, n_s, fade_out_ms) ==
    LET fade_out_samples == TruncDiv(sample_rate * fade_out_ms, 100000)
    IN  IF n_s > fade_out_samples /\ fade_out_ms > 0
        THEN [wave |-> ApplyFade(wave_data, n_s, fade_out_samples),
              fade |-> [applied |-> TRUE, from |-> n_s - fade_out_samples,
                        len |-> fade_out_samples]]
        ELSE [wave |-> wave_data, fade |-> NoFade]

\* What a generator hands back: the signal before clipping and quantising,
\* the int16 buffer, the faded range, and the random generator afterwards.
Generated(r, n_s, f, buffer) ==
    [status |-> "ok", n_s |-> n_s, wave |-> f.wave, buffer |-> buffer,
     sound |-> <<>>, fade |-> f.fade, rng |-> r.rng]

\* A generator ends with an exception.
Raised(r, n_s, exc) ==
    [status |-> exc, n_s |-> n_s, wave |-> <<>>, buffer |-> <<>>,
     sound |-> <<>>, fade |-> NoFade, rng |-> r.rng]

\* HapticRenderer.create_sound_buffer: the plain sine.
create_sound_buffer(r, hz, ms, amp, fade_out_ms) ==
    LET n_s == n_samples(ms)
        wave_data == [k \in 1 .. n_s |-> Mul(amp, np_sin(hz, 1000, linspace_t(ms, n_s, k - 1)))]
        f == FadeOut(wave_data, n_s, fade_out_ms)
    IN  Generated(r, n_s, f, Quantise(r.cast, f.wave))

\* pygame.mixer.Sound(buffer=...) of a generator's result: np.array([0]) when
\* the buffer is empty.
Sound(g) ==
    IF g.status # "ok" THEN g
    ELSE IF Len(g.buffer) = 0 THEN [g EXCEPT !.sound = <<0>>]
    ELSE [g EXCEPT !.sound = g.buffer]

\* HapticRenderer.create_sound_object
create_sound_object(r, hz, ms, amp, fade_out_ms) ==
    Sound(create_sound_buffer(r, hz, ms, amp, fade_out_ms))
\* sum of x[lo .. hi]
RECURSIVE SumRange(_, _, _)
SumRange(x, lo, hi) == IF lo > hi THEN 0 ELSE x[lo] + SumRange(x, lo + 1, hi)

\* np.convolve(x, np.ones(50)/50, mode='same') for len(x) >= 50: sample i is
\* the mean over x[i-25 .. i+24], the samples outside x counting as 0.
convolve_same(x, n) ==
    [k \in 1 .. n |->
        LET lo == IF k - 25 < 1 THEN 1 ELSE k - 25
            hi == IF k + 24 > n THEN n ELSE k + 24
        IN  TruncDiv(SumRange(x, lo, hi), GlassKernel)]

\* for i in range(1, len(x)): x[i] = a * x[i] + b * x[i-1], continued from
\* the samples done already filtered.
RECURSIVE LowpassFrom(_, _, _, _, _)
LowpassFrom(x, n, a, b, done) ==
    IF Len(done) >= n THEN done
    ELSE LET k == Len(done) + 1
             y == IF k = 1 THEN x[1] ELSE Mul(a, x[k]) + Mul(b, done[k - 1])
         IN  LowpassFrom(x, n, a, b, Append(done, y))

Lowpass(x, n, a, b) == LowpassFrom(x, n, a, b, <<>>)

\* HapticRenderer._create_glass_waveform.  np.convolve raises on an empty
\* array and returns 50 samples for a shorter one, which then fails to
\* broadcast against the n_s samples of the sinusoids unless n_s is 1.
create_glass_waveform(r, hz, ms, amp, fade_out_ms, brightness) ==
    LET n_s == n_samples(ms)
        t(k) == linspace_t(ms, n_s, k - 1)
        fundamental == [k \in 1 .. n_s |-> Mul(Mul(amp, 900), np_sin(hz, 1000, t(k)))]
        harmonic2 == [k \in 1 .. n_s |->
                        Mul(Mul(Mul(Mul(amp, 150), brightness), 300), np_sin(hz, 2000, t(k)))]
        harmonic3 == [k \in 1 .. n_s |->
                        Mul(Mul(Mul(Mul(amp, 50), brightness), 200), np_sin(hz, 3000, t(k)))]
        normal == np_random_normal(r.rng, n_s)
        r1 == [r EXCEPT !.rng = rng_after(r.rng, n_s)]
        high_freq_noise == [k \in 1 .. n_s |-> Mul(Mul(amp, 2), normal[k])]
        smoothed == convolve_same(high_freq_noise, n_s)
        wave_data == [k \in 1 .. n_s |->
                        fundamental[k] + harmonic2[k] + harmonic3[k] + smoothed[k]]
        attacked == Attack(wave_data, n_s, 100)
        f == FadeOut(attacked, n_s, fade_out_ms)
        one == fundamental[1] + harmonic2[1] + harmonic3[1]
                  + TruncDiv(high_freq_noise[1], GlassKernel)
        wave_one == [k \in 1 .. GlassKernel |-> one]
    IN  IF n_s = 0 THEN Raised(r1, n_s, "ValueError")
        ELSE IF n_s = 1
        THEN IF fade_out_ms > 0 /\ TruncDiv(sample_rate * fade_out_ms, 100000) = 0
             THEN Raised(r1, n_s, "ValueError")
             ELSE Generated(r1, n_s, [wave |-> wave_one, fade |-> NoFade],
                            Quantise(r.cast, ClipWave(wave_one)))
        ELSE IF n_s < GlassKernel THEN Raised(r1, n_s, "ValueError")
        ELSE Generated(r1, n_s, f, Quantise(r.cast, ClipWave(f.wave)))

\* The fade-out block of _create_metal_waveform: the window is at least 30%
\* of the buffer, and fade_out_ms > 0 is not asked for.
FadeOutMetal(wave_data, n_s, fade_out_ms) ==
    LET by_ms == TruncDiv(sample_rate * fade_out_ms, 100000)
        by_len == TruncDiv(n_s * 3, 10)
        fade_out_samples == IF by_ms > by_len THEN by_ms ELSE by_len
    IN  IF n_s > fade_out_samples
        THEN [wave |-> ApplyFade(wave_data, n_s, fade_out_samples),
              fade |-> [applied |-> TRUE, from |-> n_s - fade_out_samples,
                        len |-> fade_out_samples]]
        ELSE [wave |-> wave_data, fade |-> NoFade]

\* HapticRenderer._create_metal_waveform
create_metal_waveform(r, hz, ms, amp, fade_out_ms, resonance) ==
    LET n_s == n_samples(ms)
        t(k) == linspace_t(ms, n_s, k - 1)
        normal == np_random_normal(r.rng, n_s)
        r1 == [r EXCEPT !.rng = rng_after(r.rng, n_s)]
        wave_data == [k \in 1 .. n_s |->
            LET fundamental == Mul(Mul(amp, 600), np_sin(hz, 1000, t(k)))
                harmonic2 == Mul(Mul(Mul(Mul(amp, 300), resonance), 600), np_sin(hz, 2000, t(k)))
                harmonic3 == Mul(Mul(Mul(Mul(amp, 200), resonance), 600), np_sin(hz, 3000, t(k)))
                ring_modulation == 1000 + Mul(150, np_sin(hz, 50, t(k)))
                metallic_noise == Mul(Mul(amp, 10), normal[k])
            IN  Mul(fundamental + harmonic2 + harmonic3, ring_modulation) + metallic_noise]
        attacked == Attack(wave_data, n_s, 500)
        f == FadeOutMetal(attacked, n_s, fade_out_ms)
    IN  Generated(r1, n_s, f, Quantise(r.cast, ClipWave(f.wave)))

\* HapticRenderer._create_wood_waveform
create_wood_waveform(r, hz, ms, amp, fade_out_ms, warmth) ==
    LET n_s == n_samples(ms)
        t(k) == linspace_t(ms, n_s, k - 1)
        normal == np_random_normal(r.rng, n_s)
        r1 == [r EXCEPT !.rng = rng_after(r.rng, n_s)]
        wood_texture == Lowpass([k \in 1 .. n_s |-> Mul(Mul(amp, 20), normal[k])],
                                n_s, 700, 300)
        wave_data == [k \in 1 .. n_s |->
            LET fundamental == Mul(Mul(amp, 800), np_sin(hz, 1000, t(k)))
                harmonic2 == Mul(Mul(Mul(amp, 300), warmth), np_sin(hz, 2000, t(k)))
                harmonic3 == Mul(Mul(Mul(amp, 200), warmth), np_sin(hz, 3000, t(k)))
                sub_harmonic == Mul(Mul(Mul(amp, 100), warmth), np_sin(hz, 500, t(k)))
            IN  fundamental + harmonic2 + harmonic3 + sub_harmonic + wood_texture[k]]
        attacked == Attack(wave_data, n_s, 300)
        f == FadeOut(attacked, n_s, fade_out_ms)
    IN  Generated(r1, n_s, f, Quantise(r.cast, ClipWave(f.wave)))

\* A plastic generator that mixes random texture into the wave.
create_plastic_waveform_textured(r, hz, ms, amp, fade_out_ms, hardness) ==
    LET n_s == n_samples(ms)
        t(k) == linspace_t(ms, n_s, k - 1)
        normal == np_random_normal(r.rng, n_s)
        r1 == [r EXCEPT !.rng = rng_after(r.rng, n_s)]
        wave_data == [k \in 1 .. n_s |->
            LET fundamental == Mul(Mul(amp, 800), np_sin(hz, 1000, t(k)))
                harmonic2 == Mul(Mul(Mul(Mul(amp, 200), hardness), 700), np_sin(hz, 2000, t(k)))
                square_component == Mul(Mul(amp, 30), np_sign(np_sin(hz, 1000, t(k))))
                decay_envelope == np_exp_neg((3000 * t(k)) \div ms)
            IN  Mul(fundamental + harmonic2 + square_component + Mul(Mul(amp, 30), normal[k]),
                    decay_envelope)]
        attacked == Attack(wave_data, n_s, 100)
        f == FadeOut(attacked, n_s, fade_out_ms)
    IN  Generated(r1, n_s, f, Quantise(r.cast, ClipWave(f.wave)))

\* HapticRenderer._create_plastic_waveform
create_plastic_waveform(r, hz, ms, amp, fade_out_ms, hardness) ==
    LET n_s == n_samples(ms)
        t(k) == linspace_t(ms, n_s, k - 1)
        wave_data == [k \in 1 .. n_s |->
            LET fundamental == Mul(Mul(amp, 800), np_sin(hz, 1000, t(k)))
                harmonic2 == Mul(Mul(Mul(Mul(amp, 200), hardness), 700), np_sin(hz, 2000, t(k)))
                square_component == Mul(Mul(amp, 30), np_sign(np_sin(hz, 1000, t(k))))
                decay_envelope == np_exp_neg((3000 * t(k)) \div ms)
            IN  Mul(fundamental + harmonic2 + square_component, decay_envelope)]
        attacked == Attack(wave_data, n_s, 100)
        f == FadeOut(attacked, n_s, fade_out_ms)
    IN  Generated(r, n_s, f, Quantise(r.cast, ClipWave(f.wave)))

\* HapticRenderer._create_fabric_waveform
create_fabric_waveform(r, hz, ms, amp, fade_out_ms, softness) ==
    LET n_s == n_samples(ms)
        t(k) == linspace_t(ms, n_s, k - 1)
        normal == np_random_normal(r.rng, n_s)
        r1 == [r EXCEPT !.rng = rng_after(r.rng, n_s)]
        fabric_noise == Lowpass([k \in 1 .. n_s |->
                                    Mul(Mul(Mul(amp, 300), softness), normal[k])],
                                n_s, 300, 700)
        wave_data == [k \in 1 .. n_s |->
                        Mul(Mul(amp, 600), np_sin(hz, 1000, t(k))) + fabric_noise[k]]
        attacked == Attack(wave_data, n_s, 1000)
        f == FadeOut(attacked, n_s, fade_out_ms)
    IN  Generated(r1, n_s, f, Quantise(r.cast, ClipWave(f.wave)))

\* HapticRenderer._create_ceramic_waveform
create_ceramic_waveform(r, hz, ms, amp, fade_out_ms, brittleness) ==
    LET n_s == n_samples(ms)
        t(k) == linspace_t(ms, n_s, k - 1)
        wave_data == [k \in 1 .. n_s |->
            LET fundamental == Mul(Mul(amp, 700), np_sin(hz, 1000, t(k)))
                harmonic2 == Mul(Mul(Mul(amp, 300), brittleness), np_sin(hz, 2000, t(k)))
                harmonic3 == Mul(Mul(Mul(amp, 200), brittleness), np_sin(hz, 3000, t(k)))
                harmonic4 == Mul(Mul(Mul(amp, 100), brittleness), np_sin(hz, 4000, t(k)))
            IN  fundamental + harmonic2 + harmonic3 + harmonic4]
        attacked == Attack(wave_data, n_s, 200)
        f == FadeOut(attacked, n_s, fade_out_ms)
    IN  Generated(r, n_s, f, Quantise(r.cast, ClipWave(f.wave)))

\* HapticRenderer._create_rubber_waveform
create_rubber_waveform(r, hz, ms, amp, fade_out_ms, elasticity) ==
    LET n_s == n_samples(ms)
        t(k) == linspace_t(ms, n_s, k - 1)
        wave_data == [k \in 1 .. n_s |->
            LET fundamental == Mul(Mul(amp, 800), np_sin(hz, 800, t(k)))
                harmonic2 == Mul(Mul(Mul(amp, 200), elasticity), np_sin(hz, 1600, t(k)))
                elastic_modulation == 1000 + Mul(200, np_sin(hz, 100, t(k)))
            IN  Mul(fundamental + harmonic2, elastic_modulation)]
        attacked == Attack(wave_data, n_s, 500)
        decayed == [k \in 1 .. n_s |->
                      Mul(attacked[k], np_exp_neg((2000 * t(k)) \div ms))]
        f == FadeOut(decayed, n_s, fade_out_ms)
    IN  Generated(r, n_s, f, Quantise(r.cast, ClipWave(f.wave)))
\* **kwargs of create_material_sound: at most one shape parameter here.
NoKwargs == [name |-> "", value |-> 0]

Recognised == { "glass", "metal", "wood", "plastic", "fabric", "ceramic", "rubber" }

\* The if/elif chain of create_material_sound for the recognised tags: the
\* generator is called with **kwargs, so a keyword it does not have raises
\* TypeError and a missing one takes the generator's default.
MaterialWaveform(r, material_type, hz, ms, amp, fade_out_ms, kwargs) ==
    LET Arg(pname, default) == IF kwargs.name = pname THEN kwargs.value ELSE default
        Unexpected(pname) == kwargs.name \notin { "", pname }
    IN  CASE material_type = "glass" ->
               IF Unexpected("brightness") THEN Raised(r, 0, "TypeError")
               ELSE create_glass_waveform(r, hz, ms, amp, fade_out_ms, Arg("brightness", 2000))
          [] material_type = "metal" ->
               IF Unexpected("resonance") THEN Raised(r, 0, "TypeError")
               ELSE create_metal_waveform(r, hz, ms, amp, fade_out_ms, Arg("resonance", 1500))
          [] material_type = "wood" ->
               IF Unexpected("warmth") THEN Raised(r, 0, "TypeError")
               ELSE create_wood_waveform(r, hz, ms, amp, fade_out_ms, Arg("warmth", 1000))
          [] material_type = "plastic" ->
               IF Unexpected("hardness") THEN Raised(r, 0, "TypeError")
               ELSE create_plastic_waveform(r, hz, ms, amp, fade_out_ms, Arg("hardness", 1000))
          [] material_type = "fabric" ->
               IF Unexpected("softness") THEN Raised(r, 0, "TypeError")
               ELSE create_fabric_waveform(r, hz, ms, amp, fade_out_ms, Arg("softness", 1000))
          [] material_type = "ceramic" ->
               IF Unexpected("brittleness") THEN Raised(r, 0, "TypeError")
               ELSE create_ceramic_waveform(r, hz, ms, amp, fade_out_ms, Arg("brittleness", 1500))
          [] material_type = "rubber" ->
               IF Unexpected("elasticity") THEN Raised(r, 0, "TypeError")
               ELSE create_rubber_waveform(r, hz, ms, amp, fade_out_ms, Arg("elasticity", 1000))

\* create_material_sound whose fallback is the plain sine with the default
\* fade-out of 10 ms instead of the requested one.
create_material_sound_default_fade(r, material_type, hz, ms, amp, fade_out_ms, kwargs) ==
    Sound(IF material_type \in Recognised
          THEN MaterialWaveform(r, material_type, hz, ms, amp, fade_out_ms, kwargs)
          ELSE create_sound_buffer(r, hz, ms, amp, 1000))

\* HapticRenderer.create_material_sound
create_material_sound(r, material_type, hz, ms, amp, fade_out_ms, kwargs) ==
    Sound(IF material_type \in Recognised
          THEN MaterialWaveform(r, material_type, hz, ms, amp, fade_out_ms, kwargs)
          ELSE create_sound_buffer(r, hz, ms, amp, fade_out_ms))

\* Requests at 250 Hz: no samples (0 ms, fade 5 ms), 20 samples with a 5 ms
\* fade (longer than the buffer), 50 samples with a 2 ms fade, all three at
\* amplitude 0.5; and 50 samples at amplitude 1.5.
EmptyShape == [hz |-> 250, ms |-> 0,   amp |-> 500,  fade_out_ms |-> 500]
ShortShape == [hz |-> 250, ms |-> 200, amp |-> 500,  fade_out_ms |-> 500]
FullShape  == [hz |-> 250, ms |-> 500, amp |-> 500,  fade_out_ms |-> 200]
LoudShape  == [hz |-> 250, ms |-> 500, amp |-> 1500, fade_out_ms |-> 200]
\* A quarter period of the sine with a fade-out of 0.1 ms, one sample.
TickFadeShape == [hz |-> 250, ms |-> 100, amp |-> 500, fade_out_ms |-> 10]

Request(api, material_type, shape, kwargs) ==
    [api |-> api, material_type |-> material_type, hz |-> shape.hz, ms |-> shape.ms,
     amp |-> shape.amp, fade_out_ms |-> shape.fade_out_ms, kwargs |-> kwargs]

\* create_sound_object calls: the five shapes, and a duration of 0.05 ms
\* that rounds to no sample.
ObjectRequests ==
    { Request("create_sound_object", "", s, NoKwargs) :
        s \in { EmptyShape, ShortShape, FullShape, LoudShape, TickFadeShape,
                [hz |-> 250, ms |-> 5, amp |-> 500, fade_out_ms |-> 200] } }

\* create_material_sound calls: every recognised tag and the tag "unknown"
\* with no samples and with 50 samples, some with 20 samples, loud ones, and
\* calls that pass a shape parameter.
MaterialRequests ==
    { Request("create_material_sound", m, s, NoKwargs) :
        m \in Recognised \cup { "unknown" }, s \in { EmptyShape, FullShape } }
    \cup { Request("create_material_sound", m, ShortShape, NoKwargs) :
             m \in { "glass", "metal", "plastic", "unknown" } }
    \cup { Request("create_material_sound", m, LoudShape, NoKwargs) :
             m \in { "ceramic", "unknown" } }
    \cup { Request("create_material_sound", "unknown", FullShape,
                   [name |-> "brightness", value |-> 2500]),
           Request("create_material_sound", "plastic", LoudShape,
                   [name |-> "hardness", value |-> 1100]),
           Request("create_material_sound", "metal", FullShape,
                   [name |-> "brightness", value |-> 2500]) }

NoRequest == Request("", "", [hz |-> 0, ms |-> 0, amp |-> 0, fade_out_ms |-> 0], NoKwargs)

NoResult ==
    [status |-> "none", n_s |-> 0, wave |-> <<>>, buffer |-> <<>>, sound |-> <<>>,
     fade |-> NoFade, rng |-> 0]

\* The states np.random can be in when the renderer is made.
Seeds == { 0, 3 }

\* HapticRenderer.__init__, on a build whose float-to-int16 conversion wraps
\* or saturates.
InitRend ==
    /\ \E cast \in { "wrap", "saturate" }, seed \in Seeds :
          rend = [cast |-> cast, rng |-> seed, calls |-> 0,
                  req |-> NoRequest, out |-> NoResult,
                  prev_req |-> NoRequest, prev_out |-> NoResult]
    /\ NeuronIdle
    /\ EncoderIdle
    /\ PiIdle
    /\ CommIdle
    /\ SimIdle
    /\ LaterIdle

\* The renderer after a call that returned g for the request q.
Called(r, q, g) ==
    [r EXCEPT !.rng = g.rng, !.calls = @ + 1, !.req = q, !.out = g,
              !.prev_req = r.req, !.prev_out = r.out]

\* A caller makes a sound object from the plain sine.
CreateSoundObject ==
    /\ rend.calls < MaxSynth
    /\ \E q \in ObjectRequests :
          rend' = Called(rend, q, create_sound_object(rend, q.hz, q.ms, q.amp, q.fade_out_ms))
    /\ UNCHANGED <<neuronVars, encoderVars, pi, comm, sim, laterVars>>

\* A caller makes a sound object for a material.
CreateMaterialSound ==
    /\ rend.calls < MaxSynth
    /\ \E q \in MaterialRequests :
          rend' = Called(rend, q,
                         create_material_sound(rend, q.material_type, q.hz, q.ms, q.amp,
                                               q.fade_out_ms, q.kwargs))
    /\ UNCHANGED <<neuronVars, encoderVars, pi, comm, sim, laterVars>>

NextRend == CreateSoundObject \/ CreateMaterialSound

SpecRend == InitRend /\ [][NextRend]_vars

\* The synthesis call of a request, on the renderer r.
Synthesize(r, q) ==
    IF q.api = "create_sound_object"
    THEN create_sound_object(r, q.hz, q.ms, q.amp, q.fade_out_ms)
    ELSE create_material_sound(r, q.material_type, q.hz, q.ms, q.amp, q.fade_out_ms,
                               q.kwargs)

\* This transition is a synthesis call.
SynthTaken == rend'.calls = rend.calls + 1

\* C14: for every material tag, frequency, duration >= 0, amplitude and fade
\* length (no extra keyword passed), create_sound_object and
\* create_material_sound do not fail and return a buffer of at least one
\* sample, which is the single sample 0 when the duration yields no sample.
C14_AlwaysNonEmptyBuffer ==
    (rend.calls > 0 /\ rend.req.kwargs = NoKwargs) =>
        /\ rend.out.status = "ok"
        /\ Len(rend.out.sound) >= 1
        /\ rend.out.n_s = 0 => rend.out.sound = <<0>>

\* C15: every request with fade_out_ms > 0 gets a linear fade-out: over the
\* last fade_out_ms worth of samples when the buffer is longer than that
\* window, over the whole buffer otherwise; the faded range lies within the
\* buffer.
C15_FadeAlwaysApplied ==
    (rend.calls > 0 /\ rend.out.status = "ok" /\ rend.req.fade_out_ms > 0) =>
        LET n == rend.out.n_s
            window == TruncDiv(sample_rate * rend.req.fade_out_ms, 100000)
        IN  /\ rend.out.fade.len = (IF n > window THEN window ELSE n)
            /\ rend.out.fade.from = (IF n > window THEN n - window ELSE 0)
            /\ rend.out.fade.from + rend.out.fade.len <= n

\* C16: every generator, the plain sine included, clips the signal to [-1,1]
\* before quantising: each output sample is 32767 * clip(x,-1,1) rounded
\* toward zero and lies in [-32767, 32767], for every amplitude.
C16_ClippedBeforeQuantise ==
    (rend.calls > 0 /\ rend.out.status = "ok" /\ rend.out.n_s > 0) =>
        \A k \in 1 .. Len(rend.out.sound) :
            /\ rend.out.sound[k] =
                  TruncDiv(np_clip(rend.out.wave[k], -1000, 1000) * 32767, 1000)
            /\ -32767 <= rend.out.sound[k] /\ rend.out.sound[k] <= 32767

\* C17: create_material_sound with a tag that is not recognised does not
\* raise, ignores the extra shape parameter, and returns the buffer that
\* create_sound_object returns for the same frequency, duration, amplitude
\* and fade-out.
C17_UnknownTagIsPlainSine ==
    [][(SynthTaken /\ rend'.req.api = "create_material_sound"
                   /\ rend'.req.material_type \notin Recognised) =>
          LET q == rend'.req
              plain == create_sound_object(rend, q.hz, q.ms, q.amp, q.fade_out_ms)
          IN  /\ rend'.out.status = "ok"
              /\ rend'.out.sound = plain.sound
              /\ Len(rend'.out.sound) >= 1]_vars

\* The tag "unknown" with a brightness keyword gave, sample for sample, the
\* faded 50-sample buffer that the preceding create_sound_object call gave.
C17_Witness ==
    /\ rend.calls = 2
    /\ rend.req.material_type = "unknown"
    /\ rend.req.kwargs.name = "brightness"
    /\ rend.prev_req.api = "create_sound_object"
    /\ rend.prev_req.fade_out_ms = rend.req.fade_out_ms
    /\ rend.out.status = "ok"
    /\ Len(rend.out.sound) = 50
    /\ rend.out.fade.len = 20
    /\ rend.out.sound = rend.prev_out.sound

\* The request uses no random texture: the plain sine (also as fallback),
\* plastic, ceramic, rubber.
Pure(q) ==
    \/ q.api = "create_sound_object"
    \/ /\ q.api = "create_material_sound"
       /\ q.material_type \in { "plastic", "ceramic", "rubber" } \/ q.material_type \notin Recognised

\* C18: two synthesis calls in a row with identical parameters for a
\* material without random noise return identical buffers, and such a call
\* leaves the random generator as it was: nothing is carried between calls.
C18_PureSynthesisRepeats ==
    /\ []((rend.calls >= 2 /\ rend.req = rend.prev_req /\ Pure(rend.req)) =>
             /\ rend.out.status = rend.prev_out.status
             /\ rend.out.sound = rend.prev_out.sound
             /\ rend.out.wave = rend.prev_out.wave)
    /\ [][(SynthTaken /\ Pure(rend'.req)) => rend'.rng = rend.rng]_vars

\* A plastic buffer of 50 samples was made twice in a row, with the random
\* generator in a state other than 0, and came out the same.
C18_Witness ==
    /\ rend.calls = 2
    /\ rend.req = rend.prev_req
    /\ rend.req.material_type = "plastic"
    /\ rend.rng # 0
    /\ rend.out.status = "ok"
    /\ Len(rend.out.sound) = 50
    /\ rend.out.sound = rend.prev_out.sound

-----------------------------------------------------------------------------
(* izhikevich_neuron.py: two simulation runs given the same inputs          *)

\* Bound: steps per simulation run.
MaxSimLen == 3

Runs == { 1, 2 }

\* Parameter lists an array is constructed from.
BankParamLists == { BankParams, DocstringParams }

\* Both runs start from the same (a, b, c, d, v, u); no input is drawn yet.
InitSim ==
    /\ \/ \E p \in NeuronParams :
             LET n == IzhikevichNeuron(p.a, p.b, p.c, p.d, p.v_init)
             IN  sim = [kind |-> "neuron", run |-> <<n, n>>,
                        inputs |-> <<>>, out |-> << <<>>, <<>> >>, last |-> 0]
       \/ \E params \in BankParamLists :
             LET B == IzhikevichNeuronArray(params)
             IN  sim = [kind |-> "array", run |-> <<B, B>>,
                        inputs |-> <<>>, out |-> << <<>>, <<>> >>, last |-> 0]
    /\ NeuronIdle
    /\ EncoderIdle
    /\ PiIdle
    /\ CommIdle
    /\ RendIdle
    /\ LaterIdle

\* The k-th (dt, I) of the common input sequence: the recorded one, or a
\* fresh one when this run is the first to make its k-th step.
InputsFor(k, currents) ==
    IF k <= Len(sim.inputs)
    THEN { sim.inputs[k] }
    ELSE { [dt |-> dt, I |-> I] : dt \in Dts, I \in currents }

Recorded(k, inp) ==
    IF k <= Len(sim.inputs) THEN sim.inputs ELSE Append(sim.inputs, inp)

\* Run r makes its next IzhikevichNeuron.step.
SimNeuronStep ==
    /\ sim.kind = "neuron"
    /\ \E r \in Runs :
          LET k == Len(sim.out[r]) + 1
          IN  /\ k <= MaxSimLen
              /\ \E inp \in InputsFor(k, Currents) :
                    LET s == IzhikevichNeuron_step(sim.run[r], inp.dt, inp.I)
                    IN  sim' = [sim EXCEPT
                                  !.run[r] = s.nrn,
                                  !.inputs = Recorded(k, inp),
                                  !.out[r] = Append(@, [v |-> s.nrn.v, u |-> s.nrn.u,
                                                        fired |-> s.fired, raised |-> FALSE]),
                                  !.last = r]
    /\ UNCHANGED <<neuronVars, encoderVars, pi, comm, rend, laterVars>>

\* Run r makes its next IzhikevichNeuronArray.step.
SimArrayStep ==
    /\ sim.kind = "array"
    /\ \E r \in Runs :
          LET k == Len(sim.out[r]) + 1
          IN  /\ k <= MaxSimLen
              /\ \E inp \in InputsFor(k, CurrentArrays) :
                    LET s == IzhikevichNeuronArray_step(sim.run[r], inp.dt, inp.I)
                    IN  sim' = [sim EXCEPT
                                  !.run[r] = s.bnk,
                                  !.inputs = Recorded(k, inp),
                                  !.out[r] = Append(@, [v |-> s.bnk.v, u |-> s.bnk.u,
                                                        fired |-> s.fired, raised |-> s.raised]),
                                  !.last = r]
    /\ UNCHANGED <<neuronVars, encoderVars, pi, comm, rend, laterVars>>

NextSim == SimNeuronStep \/ SimArrayStep

SpecSim == InitSim /\ [][NextSim]_vars

Channel(B, i) ==
    [a |-> B.a[i], b |-> B.b[i], c |-> B.c[i], d |-> B.d[i], v |-> B.v[i], u |-> B.u[i]]

\* C20: every IzhikevichNeuronArray.step gives each channel i the (v, u,
\* fired) that IzhikevichNeuron.step gives a single neuron holding channel
\* i's (a, b, c, d, v, u) for the same dt and I_i, and keeps the number of
\* channels.
C20_ArrayIsPerChannelNeuron ==
    [][\A r \in Runs :
          (sim.kind = "array" /\ Len(sim'.out[r]) = Len(sim.out[r]) + 1) =>
              LET k == Len(sim'.out[r])
                  inp == sim'.inputs[k]
                  B == sim.run[r]
                  o == sim'.out[r][k]
              IN  /\ ~o.raised
                  /\ DOMAIN o.v = Channels /\ DOMAIN o.u = Channels
                  /\ DOMAIN o.fired = Channels
                  /\ \A i \in Channels :
                        LET s == IzhikevichNeuron_step(Channel(B, i), inp.dt, inp.I[i])
                        IN  /\ o.v[i] = s.nrn.v
                            /\ o.u[i] = s.nrn.u
                            /\ o.fired[i] = s.fired]_vars

-----------------------------------------------------------------------------
(* spike_encoder.py: adaptation of the SA neuron and the burst window       *)

\* a after k divisions by 1.05, starting from a0.
RECURSIVE Adapted(_, _)
Adapted(a0, k) == IF k = 0 THEN a0 ELSE (Adapted(a0, k - 1) * 100) \div 105

\* C23: the SA neuron's a changes in exactly two ways: a step in which the SA
\* neuron fires divides it by 1.05 (any other step leaves it), and
\* update_sa_input with a positive magnitude sets it to init_a (any other
\* update leaves it).  So a is init_a divided k times by 1.05 for a number k
\* of spikes, never above init_a, and strictly positive.
C23_SaAdaptation ==
    /\ [][/\ StepTaken =>
               enc'.sa.a = IF loc'.sa_fired THEN (enc.sa.a * 100) \div 105 ELSE enc.sa.a
          /\ UpdateTaken =>
               enc'.sa.a = IF enc'.input_mag_sa > 0 THEN cfg.sa_init_a ELSE enc.sa.a]_vars
    /\ [](/\ \E k \in 0 .. eticks : enc.sa.a = Adapted(cfg.sa_init_a, k)
          /\ enc.sa.a <= cfg.sa_init_a
          /\ enc.sa.a > 0)

\* The SA neuron has fired in the step just made, after a positive update:
\* a is init_a divided once by 1.05.
C23_Witness ==
    /\ last_op = "step"
    /\ loc.sa_fired
    /\ enc.input_mag_sa > 0
    /\ enc.sa.a = Adapted(cfg.sa_init_a, 1)
    /\ enc.sa.a < cfg.sa_init_a

\* C24: on every step in which the sustained click magnitude is fed to the
\* RA neuron (the counter is above 0 after the arming part), the last step of
\* the window and a window of length 1 included, the RA neuron is stepped
\* with d equal to the burst value.
C24_BurstDuringWholeWindow ==
    (last_op = "step" /\ loc.armed_counter > 0) =>
        loc.ra_d_at_step = cfg.ra_click_d_burst

-----------------------------------------------------------------------------
(* spike_encoder.py: a held pressure, with the calls made so far recorded   *)

\* Bounds: SpikeEncoder.step calls per behaviour, and update_sa_input calls
\* between two steps.
MaxHoldTicks == 4
MaxUpdates == 2

\* Magnitudes of a press-and-hold: released, click_mag 12.0, a hard press.
HoldMagnitudes == {0, 1200, 4000}

\* The pointer is pressed and moves, or is pressed and rests.
HoldInputs ==
    { [mouse_speed |-> 200000, material_roughness |-> 120, mouse_pressed |-> TRUE],
      [mouse_speed |-> 0,      material_roughness |-> 120, mouse_pressed |-> TRUE] }

\* What the calls made so far were: the update_sa_input calls since the last
\* step (their number, whether one was positive, a before the first of
\* them), those the last step found, the magnitude held at the last step,
\* the steps made since the last update_sa_input, and whether the first of
\* these steps saw a change above the epsilon and which magnitude it armed.
NoCalls ==
    [pending |-> 0, pending_pos |-> FALSE, a_before |-> 0,
     found |-> 0, found_pos |-> FALSE, found_a_before |-> 0,
     held |-> 0, since |-> 0, changed |-> FALSE, gain |-> 0,
     quiet |-> TRUE]

InitHold ==
    /\ enc = SpikeEncoder(sa_params_ex, ra_params_ex)
    /\ \E dur \in 0 .. MaxDur : cfg = input_config_ex(dur)
    /\ loc = NoLoc
    /\ last_op = "init"
    /\ eticks = 0
    /\ hist = NoCalls
    /\ NeuronIdle
    /\ PiIdle
    /\ CommIdle
    /\ RendIdle
    /\ SimIdle
    /\ ProcIdle
    /\ BootIdle
    /\ PlayerIdle
    /\ MatIdle

\* A press or release handler calls update_sa_input.
HoldUpdate ==
    /\ eticks < MaxHoldTicks
    /\ hist.pending < MaxUpdates
    /\ \E m \in HoldMagnitudes :
          /\ enc' = update_sa_input(enc, cfg, m)
          /\ hist' = [hist EXCEPT
                        !.pending = @ + 1,
                        !.pending_pos = @ \/ m > 0,
                        !.a_before = IF hist.pending = 0 THEN enc.sa.a ELSE @,
                        !.since = 0, !.changed = FALSE, !.gain = 0]
    /\ last_op' = "update_sa_input"
    /\ UNCHANGED <<cfg, loc, eticks, neuronVars, pi, comm, rend, sim,
                   proc, boot, player, mat>>

\* The simulation timer calls step.
HoldStep ==
    /\ eticks < MaxHoldTicks
    /\ \E in \in HoldInputs :
          LET r == SpikeEncoder_step(enc, cfg, in.mouse_speed, in.material_roughness,
                                     in.mouse_pressed)
              delta == enc.input_mag_sa - hist.held
              first == hist.since = 0
          IN  /\ enc' = r.e
              /\ loc' = r.loc
              /\ hist' = [hist EXCEPT
                            !.pending = 0, !.pending_pos = FALSE, !.a_before = 0,
                            !.found = hist.pending,
                            !.found_pos = hist.pending_pos,
                            !.found_a_before = hist.a_before,
                            !.held = enc.input_mag_sa,
                            !.since = @ + 1,
                            !.changed = IF first THEN Abs(delta) > ChangeEpsilon ELSE @,
                            !.gain = IF first THEN ClickGain(delta) ELSE @,
                            !.quiet = enc.ra_sustain_counter = 0]
    /\ last_op' = "step"
    /\ eticks' = eticks + 1
    /\ UNCHANGED <<cfg, neuronVars, pi, comm, rend, sim, proc, boot, player, mat>>

NextHold == HoldUpdate \/ HoldStep

SpecHold == InitHold /\ [][NextHold]_vars

\* C25: after a change of the held magnitude larger than the epsilon and no
\* further update_sa_input call, the click current of the n-th step after
\* the change is the armed magnitude for n <= RA_SUSTAIN_DURATION and 0 for
\* every later step.
C25_SustainForDurationThenZero ==
    (last_op = "step" /\ hist.since >= 1 /\ hist.changed) =>
        loc.current_ra_click_input =
            IF hist.since <= cfg.RA_SUSTAIN_DURATION THEN hist.gain ELSE 0

\* A window of two steps has run out: the step after it, with the pressure
\* still held, got no click current and armed nothing.
C25_Witness ==
    /\ last_op = "step"
    /\ hist.changed
    /\ cfg.RA_SUSTAIN_DURATION = 2
    /\ hist.since = 3
    /\ enc.input_mag_sa > 0
    /\ hist.gain > 0
    /\ loc.current_ra_click_input = 0
    /\ loc.armed_counter = 0

\* C28: a step arms the burst exactly when the magnitude held at this step
\* differs by more than the epsilon from the one held at the previous step.
\* After update_sa_input calls that cancel out between two steps the step
\* arms nothing, and when no window was running it and every later step of
\* the unchanged pressure inject no click current; a positive call among
\* them has still set the SA neuron's a to init_a.
C28_ArmingSeesHeldMagnitudesOnly ==
    /\ [](enc.prev_input_mag_sa_for_ra = hist.held)
    /\ [][(eticks' = eticks + 1) =>
            LET delta == enc.input_mag_sa - hist.held
                armed == /\ loc'.armed_counter = cfg.RA_SUSTAIN_DURATION
                         /\ loc'.armed_input = ClickGain(delta)
                         /\ loc'.armed_d = cfg.ra_click_d_burst
                untouched == /\ loc'.armed_counter = enc.ra_sustain_counter
                             /\ loc'.armed_input = enc.ra_sustained_click_input
                             /\ loc'.armed_d = enc.ra.d
            IN  /\ IF Abs(delta) > ChangeEpsilon THEN armed ELSE untouched
                /\ (hist.pending >= 2 /\ delta = 0 /\ enc.ra_sustain_counter = 0) =>
                      /\ untouched
                      /\ loc'.current_ra_click_input = 0
                      /\ enc'.ra_sustain_counter = 0]_vars
    /\ []((last_op = "step" /\ hist.quiet /\ ~hist.changed /\ hist.since >= 1) =>
             loc.current_ra_click_input = 0)
    /\ [][(last_op' = "update_sa_input" /\ enc'.input_mag_sa > 0) =>
             enc'.sa.a = cfg.sa_init_a]_vars

\* After an SA spike had lowered a, a press and a release arrived between two
\* steps: the step armed nothing and injected nothing, and a is init_a again.
C28_Witness ==
    /\ last_op = "step"
    /\ hist.found = 2
    /\ hist.found_pos
    /\ hist.found_a_before < cfg.sa_init_a
    /\ enc.input_mag_sa = 0
    /\ loc.input_delta_sa = 0
    /\ hist.quiet
    /\ loc.current_ra_click_input = 0
    /\ enc.ra_sustain_counter = 0
    /\ enc.sa.a = cfg.sa_init_a

-----------------------------------------------------------------------------
(* audio_player.py and pi/player.py: play_sound                             *)
(* Volumes are in hundredths (volume = 100 is 1.0).                         *)

\* Bound: play_sound calls per behaviour.
MaxPlays == 2

\* Channel ids pygame.mixer.Channel accepts (the mixer's default 8 channels);
\* any other id raises.
MixerChannelIds == 0 .. 7

\* No set_volume call was made.
NoVolume == -1

\* The outcome of a play_sound call: the volume handed to set_volume, whether
\* channel.play ran, the returned value, and an exception that left the call.
Outcome(applied, played, result, raised) ==
    [applied |-> applied, played |-> played, result |-> result, raised |-> raised]

\* sound_object.set_volume(volume); pygame.mixer.Channel(channel_id).play(...)
SetVolumeAndPlay(channel_id, volume) ==
    IF channel_id \in MixerChannelIds
    THEN [applied |-> volume, played |-> TRUE, error |-> FALSE]
    ELSE [applied |-> volume, played |-> FALSE, error |-> TRUE]

\* A play_sound that refuses a volume outside [0, 1].
AudioPlayer_play_sound_rejects(is_initialized, sound_ok, channel_id, volume) ==
    IF ~is_initialized THEN Outcome(NoVolume, FALSE, "False", "none")
    ELSE IF ~sound_ok THEN Outcome(NoVolume, FALSE, "False", "none")
    ELSE IF channel_id < 0 THEN Outcome(NoVolume, FALSE, "False", "none")
    ELSE IF ~(0 <= volume /\ volume <= 100) THEN Outcome(NoVolume, FALSE, "False", "none")
    ELSE LET p == SetVolumeAndPlay(channel_id, volume)
         IN  IF p.error THEN Outcome(p.applied, FALSE, "False", "none")
             ELSE Outcome(p.applied, TRUE, "True", "none")

\* AudioPlayer.play_sound
AudioPlayer_play_sound(is_initialized, sound_ok, channel_id, volume) ==
    IF ~is_initialized THEN Outcome(NoVolume, FALSE, "False", "none")
    ELSE IF ~sound_ok THEN Outcome(NoVolume, FALSE, "False", "none")
    ELSE IF channel_id < 0 THEN Outcome(NoVolume, FALSE, "False", "none")
    ELSE LET vol == IF ~(0 <= volume /\ volume <= 100)
                    THEN np_clip(volume, 0, 100) ELSE volume
             p == SetVolumeAndPlay(channel_id, vol)
         IN  IF p.error THEN Outcome(p.applied, FALSE, "False", "none")
             ELSE Outcome(p.applied, TRUE, "True", "none")

\* HapticPlayModule.play_sound: no initialisation flag, no channel check, no
\* try block.
HapticPlayModule_play_sound(sound_ok, channel_id, volume) ==
    IF ~sound_ok THEN Outcome(NoVolume, FALSE, "None", "none")
    ELSE LET vol == IF ~(0 <= volume /\ volume <= 100)
                    THEN np_clip(volume, 0, 100) ELSE volume
             p == SetVolumeAndPlay(channel_id, vol)
         IN  IF p.error THEN Outcome(p.applied, FALSE, "none", "IndexError")
             ELSE Outcome(p.applied, TRUE, "None", "none")

\* Volumes the callers pass: below the range, its ends, inside, just above,
\* far above.
Volumes == {-50, 0, 30, 100, 101, 250}

\* Channel ids the callers pass.
ChannelIds == {-1, 0, 1, 99}

NoPlay == [class |-> "", sound_ok |-> FALSE, channel_id |-> 0, volume |-> 0]

InitPlayer ==
    /\ \E init \in BOOLEAN :
          player = [is_initialized |-> init, calls |-> 0, req |-> NoPlay,
                    out |-> Outcome(NoVolume, FALSE, "none", "none")]
    /\ NeuronIdle
    /\ EncoderIdle
    /\ PiIdle
    /\ CommIdle
    /\ RendIdle
    /\ SimIdle
    /\ HistIdle
    /\ ProcIdle
    /\ BootIdle
    /\ MatIdle

\* A caller plays a sound through AudioPlayer.
AudioPlayerPlaySound ==
    /\ player.calls < MaxPlays
    /\ \E sound_ok \in BOOLEAN, channel_id \in ChannelIds, volume \in Volumes :
          player' = [player EXCEPT
                       !.calls = @ + 1,
                       !.req = [class |-> "AudioPlayer", sound_ok |-> sound_ok,
                                channel_id |-> channel_id, volume |-> volume],
                       !.out = AudioPlayer_play_sound(player.is_initialized, sound_ok,
                                                      channel_id, volume)]
    /\ UNCHANGED <<neuronVars, encoderVars, pi, comm, rend, sim, hist, proc, boot, mat>>

\* The Pi's handler plays a sound through HapticPlayModule.
HapticPlayModulePlaySound ==
    /\ player.calls < MaxPlays
    /\ \E sound_ok \in BOOLEAN, channel_id \in ChannelIds, volume \in Volumes :
          player' = [player EXCEPT
                       !.calls = @ + 1,
                       !.req = [class |-> "HapticPlayModule", sound_ok |-> sound_ok,
                                channel_id |-> channel_id, volume |-> volume],
                       !.out = HapticPlayModule_play_sound(sound_ok, channel_id, volume)]
    /\ UNCHANGED <<neuronVars, encoderVars, pi, comm, rend, sim, hist, proc, boot, mat>>

NextPlayer == AudioPlayerPlaySound \/ HapticPlayModulePlaySound

SpecPlayer == InitPlayer /\ [][NextPlayer]_vars

\* The call would play the sound with a volume inside the range.
PlayableOtherwise(q) ==
    /\ q.sound_ok
    /\ q.channel_id \in MixerChannelIds
    /\ q.class = "AudioPlayer" => player.is_initialized

\* C21: for every volume passed to play_sound, a volume handed to the sound
\* is min(max(volume, 0), 1), and the volume is never a reason for failure:
\* the sound is played exactly when it would be played with an in-range
\* volume.
C21_VolumeClamped ==
    player.calls > 0 =>
        LET q == player.req
            clamped == IF q.volume < 0 THEN 0 ELSE IF q.volume > 100 THEN 100 ELSE q.volume
        IN  /\ player.out.applied \in { NoVolume, clamped }
            /\ PlayableOtherwise(q) =>
                  /\ player.out.played
                  /\ player.out.applied = clamped
                  /\ player.out.raised = "none"
            /\ player.out.played => PlayableOtherwise(q)

\* On its second call AudioPlayer was given the volume 2.5 and has played
\* the sound at 1.0.
C21_Witness ==
    /\ player.calls = 2
    /\ player.req.class = "AudioPlayer"
    /\ player.req.volume = 250
    /\ player.out.played
    /\ player.out.applied = 100
    /\ player.out.result = "True"

-----------------------------------------------------------------------------
(* haptic_core_example.py, auto_haptic_demo.py, core/audio_player.py:       *)
(* set_material                                                             *)

\* Bound: set_material calls per behaviour.
MaxSetMaterial == 3

\* config['materials'] of HapticCore and of AutoHapticSystem.
CoreMaterials == { "Smooth", "Medium", "Rough" }

\* The keys of HapticAudioPlayer.sounds (and of its channels).
PlayerMaterials == { "metal", "glass", "wood", "fabric", "silk" }

\* Names the callers pass: configured ones of either family, a name in the
\* wrong case, the empty name, an unknown name.
MaterialNames == CoreMaterials \cup PlayerMaterials \cup { "smooth", "", "leather" }

\* A set_material that stores whatever name it is given.
HapticCore_set_material_unchecked(m, material_name) ==
    [m EXCEPT !.current_material = material_name]

\* HapticCore.set_material (AutoHapticSystem.set_material is the same without
\* the message of the else branch): an unknown name changes nothing.
HapticCore_set_material(m, material_name) ==
    IF material_name \in m.materials
    THEN [m EXCEPT !.current_material = material_name]
    ELSE m

\* AutoHapticSystem.set_material
AutoHapticSystem_set_material(m, material_name) ==
    IF material_name \in m.materials
    THEN [m EXCEPT !.current_material = material_name]
    ELSE m

\* HapticAudioPlayer.set_material: a name without a sound is generated when
\* it is one of the five, otherwise replaced by "metal"; the same material
\* as the current one returns early; the new material's channel is started
\* when the old one was audible.
HapticAudioPlayer_set_material(m, material) ==
    LET name == IF material \in m.materials THEN material
                ELSE IF material \in PlayerMaterials THEN material
                ELSE "metal"
        sounds == m.materials \cup { name }
    IN  IF name = m.current_material
        THEN [m EXCEPT !.materials = sounds]
        ELSE [m EXCEPT !.materials = sounds,
                       !.current_material = name,
                       !.started = IF m.is_playing THEN name ELSE @]

NoName == "none"

InitMat ==
    /\ \/ \E class \in { "HapticCore", "AutoHapticSystem" } :
             mat = [class |-> class, materials |-> CoreMaterials,
                    current_material |-> "Smooth", is_playing |-> FALSE,
                    started |-> NoName, calls |-> 0, name |-> NoName,
                    before |-> "Smooth"]
       \/ \E is_playing \in BOOLEAN :
             mat = [class |-> "HapticAudioPlayer", materials |-> PlayerMaterials,
                    current_material |-> "metal", is_playing |-> is_playing,
                    started |-> NoName, calls |-> 0, name |-> NoName,
                    before |-> "metal"]
    /\ NeuronIdle
    /\ EncoderIdle
    /\ PiIdle
    /\ CommIdle
    /\ RendIdle
    /\ SimIdle
    /\ HistIdle
    /\ ProcIdle
    /\ BootIdle
    /\ PlayerIdle

Named(m, n) == [m EXCEPT !.calls = @ + 1, !.name = n, !.before = mat.current_material]

HapticCoreSetMaterial ==
    /\ mat.class = "HapticCore"
    /\ mat.calls < MaxSetMaterial
    /\ \E n \in MaterialNames : mat' = Named(HapticCore_set_material(mat, n), n)
    /\ UNCHANGED <<neuronVars, encoderVars, pi, comm, rend, sim, hist, proc, boot, player>>

AutoHapticSystemSetMaterial ==
    /\ mat.class = "AutoHapticSystem"
    /\ mat.calls < MaxSetMaterial
    /\ \E n \in MaterialNames : mat' = Named(AutoHapticSystem_set_material(mat, n), n)
    /\ UNCHANGED <<neuronVars, encoderVars, pi, comm, rend, sim, hist, proc, boot, player>>

HapticAudioPlayerSetMaterial ==
    /\ mat.class = "HapticAudioPlayer"
    /\ mat.calls < MaxSetMaterial
    /\ \E n \in MaterialNames : mat' = Named(HapticAudioPlayer_set_material(mat, n), n)
    /\ UNCHANGED <<neuronVars, encoderVars, pi, comm, rend, sim, hist, proc, boot, player>>

NextMat ==
    HapticCoreSetMaterial \/ AutoHapticSystemSetMaterial \/ HapticAudioPlayerSetMaterial

SpecMat == InitMat /\ [][NextMat]_vars

\* C22: after any sequence of set_material calls the current material is one
\* of the configured materials, so the lookup by the current material does
\* not fail; a call with an unknown name leaves the selection unchanged
\* (HapticCore, AutoHapticSystem) or selects metal (HapticAudioPlayer).
C22_CurrentMaterialConfigured ==
    /\ mat.current_material \in mat.materials
    /\ mat.class \in { "HapticCore", "AutoHapticSystem" } =>
          /\ mat.materials = CoreMaterials
          /\ (mat.calls > 0 /\ mat.name \notin CoreMaterials) =>
                mat.current_material = mat.before
          /\ (mat.calls > 0 /\ mat.name \in CoreMaterials) =>
                mat.current_material = mat.name
    /\ mat.class = "HapticAudioPlayer" =>
          /\ mat.materials = PlayerMaterials
          /\ (mat.calls > 0 /\ mat.name \notin PlayerMaterials) =>
                mat.current_material = "metal"
          /\ (mat.calls > 0 /\ mat.name \in PlayerMaterials) =>
                mat.current_material = mat.name

\* After a change to another material, an unknown name was given: HapticCore
\* kept the material, HapticAudioPlayer fell back to metal.
C22_Witness ==
    /\ mat.calls >= 2
    /\ mat.name = "leather"
    /\ \/ mat.class = "HapticCore" /\ mat.before = "Rough"
                                   /\ mat.current_material = "Rough"
       \/ mat.class = "HapticAudioPlayer" /\ mat.before = "glass"
                                          /\ mat.current_material = "metal"

\* max |x[k]| over k in 1..n (0 for n = 0).
RECURSIVE Peak(_, _)
Peak(x, n) ==
    IF n = 0 THEN 0
    ELSE LET rest == Peak(x, n - 1)
         IN  IF Abs(x[n]) > rest THEN Abs(x[n]) ELSE rest

\* C26: in every buffer with fade_out_ms > 0 whose fade-out was applied over
\* a window of at least one sample, and whose segment before the window has
\* a non-zero peak, the last sample is 0 and so strictly smaller in magnitude
\* than that peak.
C26_FadeEndsAtZero ==
    (/\ rend.calls > 0 /\ rend.out.status = "ok"
     /\ rend.req.fade_out_ms > 0
     /\ rend.out.fade.applied /\ rend.out.fade.len >= 1
     /\ Peak(rend.out.sound, rend.out.fade.from) > 0) =>
        LET last == rend.out.sound[Len(rend.out.sound)]
        IN  /\ last = 0
            /\ Abs(last) < Peak(rend.out.sound, rend.out.fade.from)

-----------------------------------------------------------------------------
(* HapticRingMonitoring_Core/core/processing.py: DataProcessor              *)
(* Speeds are in hundredths (500 is 5.0).  The GUI thread calls add_data    *)
(* and set_pressed; the worker thread runs DataProcessor.run.  A step of a  *)
(* thread is one statement on the shared fields.                            *)

\* Bound: add_data and set_pressed calls of the GUI thread per behaviour.
MaxGuiCalls == 4

\* deque(maxlen=100)
QueueMaxLen == 100

\* MovingAverage(window_size=30)
window_size == 30

\* floor of the square root
Isqrt(x) == CHOOSE r \in 0 .. x : r * r <= x /\ (r + 1) * (r + 1) > x

\* calculate_speed: sqrt(dx*dx + dy*dy) / dt if dt > 0 else 0.0
calculate_speed(dx, dy, dt) ==
    IF dt > 0 THEN Isqrt(10000 * (dx * dx + dy * dy)) \div dt ELSE 0

\* deque.append on a bounded deque drops the oldest item when full.
deque_append(q, maxlen, x) ==
    IF Len(q) = maxlen THEN Append(Tail(q), x) ELSE Append(q, x)

RECURSIVE SeqSum(_)
SeqSum(q) == IF q = <<>> THEN 0 ELSE Head(q) + SeqSum(Tail(q))

\* MovingAverage.get_average
get_average(values) == IF values = <<>> THEN 0 ELSE SeqSum(values) \div Len(values)

\* Pointer samples (dx, dy, dt) the GUI thread queues: a move, no move, a
\* move with dt = 0.
Samples == { <<3, 4, 1>>, <<0, 0, 1>>, <<3, 4, 0>> }

Zero == <<0, 0>>

\* DataProcessor.__init__, with the worker at the top of its loop and the
\* GUI thread outside any call.
InitProc ==
    /\ proc = [is_pressed |-> FALSE, queue |-> <<>>, values |-> <<>>,
               last_known_speed |-> 0, last_known_avg_speed |-> 0,
               gui |-> "idle", calls |-> 0,
               worker |-> "test_pressed", item |-> <<0, 0, 0>>,
               current_speed |-> 0, avg_speed |-> 0,
               released |-> FALSE, after_release |-> {}]
    /\ NeuronIdle
    /\ EncoderIdle
    /\ PiIdle
    /\ CommIdle
    /\ RendIdle
    /\ SimIdle
    /\ HistIdle
    /\ BootIdle
    /\ PlayerIdle
    /\ MatIdle

ProcFrame ==
    UNCHANGED <<neuronVars, encoderVars, pi, comm, rend, sim, hist, boot, player, mat>>

\* data_processed.emit(current_speed, avg_speed): what the signal carried
\* since the last set_pressed(False) returned is kept.
Emit(p, current_speed, avg_speed) ==
    [p EXCEPT !.after_release = IF p.released
                                THEN @ \cup { <<current_speed, avg_speed>> } ELSE @]

\* GUI thread: add_data
AddData ==
    /\ proc.gui = "idle"
    /\ proc.calls < MaxGuiCalls
    /\ \E s \in Samples :
          proc' = [proc EXCEPT !.queue = deque_append(@, QueueMaxLen, s),
                               !.calls = @ + 1]
    /\ ProcFrame

\* GUI thread: set_pressed(True), line 55 is the whole call.
SetPressedTrue ==
    /\ proc.gui = "idle"
    /\ proc.calls < MaxGuiCalls
    /\ proc' = [proc EXCEPT !.is_pressed = TRUE, !.calls = @ + 1,
                            !.released = FALSE, !.after_release = {}]
    /\ ProcFrame

\* GUI thread: set_pressed(False), line 55
SetPressedFalse ==
    /\ proc.gui = "idle"
    /\ proc.calls < MaxGuiCalls
    /\ proc' = [proc EXCEPT !.is_pressed = FALSE, !.calls = @ + 1, !.gui = "reset"]
    /\ ProcFrame

\* set_pressed(False), line 57: speed_avg.reset()
SetPressedReset ==
    /\ proc.gui = "reset"
    /\ proc' = [proc EXCEPT !.values = <<>>, !.gui = "clear"]
    /\ ProcFrame

\* set_pressed(False), lines 58-60: queue.clear() and the last known speeds
SetPressedClear ==
    /\ proc.gui = "clear"
    /\ proc' = [proc EXCEPT !.queue = <<>>, !.last_known_speed = 0,
                            !.last_known_avg_speed = 0, !.gui = "emit"]
    /\ ProcFrame

\* set_pressed(False), lines 61-62: emit (0.0, 0.0) and return.
SetPressedEmit ==
    /\ proc.gui = "emit"
    /\ proc' = [Emit(proc, 0, 0) EXCEPT !.gui = "idle", !.released = TRUE,
                                        !.after_release = {}]
    /\ ProcFrame

\* Worker, line 72: `self.is_pressed and ...`
WorkerTestPressed ==
    /\ proc.worker = "test_pressed"
    /\ proc' = [proc EXCEPT !.worker = IF proc.is_pressed THEN "test_queue" ELSE "elif"]
    /\ ProcFrame

\* Worker, line 72: `... and self.queue`
WorkerTestQueue ==
    /\ proc.worker = "test_queue"
    /\ proc' = [proc EXCEPT !.worker = IF proc.queue # <<>> THEN "popleft" ELSE "elif"]
    /\ ProcFrame

\* Worker, line 73: queue.popleft() raises IndexError on an empty deque.
WorkerPopleft ==
    /\ proc.worker = "popleft"
    /\ proc' = IF proc.queue = <<>>
               THEN [proc EXCEPT !.worker = "IndexError"]
               ELSE [proc EXCEPT !.item = Head(proc.queue), !.queue = Tail(@),
                                 !.worker = "compute"]
    /\ ProcFrame

\* Worker, lines 74-79
WorkerCompute ==
    /\ proc.worker = "compute"
    /\ LET current_speed == calculate_speed(proc.item[1], proc.item[2], proc.item[3])
           values == deque_append(proc.values, window_size, current_speed)
       IN  proc' = [proc EXCEPT !.values = values,
                                !.current_speed = current_speed,
                                !.avg_speed = get_average(values),
                                !.last_known_speed = current_speed,
                                !.last_known_avg_speed = get_average(values),
                                !.worker = "emit"]
    /\ ProcFrame

\* Worker, line 80
WorkerEmit ==
    /\ proc.worker = "emit"
    /\ proc' = [Emit(proc, proc.current_speed, proc.avg_speed) EXCEPT
                  !.worker = "test_pressed"]
    /\ ProcFrame

\* Worker, lines 82-88 and the sleep: when not pressed, (0.0, 0.0) is
\* emitted if 50 ms have passed since the last such emission.
WorkerElif ==
    /\ proc.worker = "elif"
    /\ \E due \in BOOLEAN :
          proc' = IF ~proc.is_pressed /\ due
                  THEN [Emit(proc, 0, 0) EXCEPT !.worker = "test_pressed"]
                  ELSE [proc EXCEPT !.worker = "test_pressed"]
    /\ ProcFrame

NextProc ==
    \/ AddData \/ SetPressedTrue \/ SetPressedFalse
    \/ SetPressedReset \/ SetPressedClear \/ SetPressedEmit
    \/ WorkerTestPressed \/ WorkerTestQueue \/ WorkerPopleft
    \/ WorkerCompute \/ WorkerEmit \/ WorkerElif

SpecProc == InitProc /\ [][NextProc]_vars

\* C27: once set_pressed(False) has returned and until set_pressed(True) is
\* called, the data_processed signal carries only (0.0, 0.0).
C27_OnlyZeroAfterRelease ==
    proc.released => proc.after_release \subseteq { Zero }

\* C29: the worker's queue.popleft() always finds the queue non-empty; the
\* worker thread never ends with an exception.
C29_PopleftNeverOnEmptyQueue ==
    proc.worker # "IndexError"

(***************************************************************************)
(* pi/spike_haptic_raspi.py: __init__ beside the receive thread it starts   *)
(***************************************************************************)

\* The statements of __init__ that follow Thread(...).start() at line 21,
\* in program order; "done" is __init__ having returned.
CtorSteps == <<"load_config", "create_player", "sound_fields",
               "init_sa_sound", "init_ra_sounds", "done">>

\* Datagrams that can arrive while the object is being built.
BootPayloads == { "play_sa", "play_ra", "change_a", "reset_json",
                  "no_command", "reset_bare" }

\* The object right after line 21: the socket is bound, _stop is False, the
\* receive thread runs, and neither hatpicPlayer nor sa_sound nor ra_sound
\* is an attribute of the object yet.
InitBoot ==
    /\ boot = [ctor |-> 1, hatpicPlayer |-> FALSE, sa_sound |-> "unassigned",
               thread |-> "recvfrom", payload |-> "",
               rx |-> [alive |-> TRUE, stop |-> FALSE, crash |-> "none",
                       msg |-> Unbound, sa_sound |-> "startup",
                       ra_sound |-> [assigned |-> FALSE, hz |-> 0],
                       played |-> NoSound, log |-> <<>>, handled |-> 0,
                       last |-> [payload |-> "", effect |-> "none"]],
               unassigned_read |-> "none"]
    /\ NeuronIdle
    /\ EncoderIdle
    /\ PiIdle
    /\ CommIdle
    /\ RendIdle
    /\ SimIdle
    /\ HistIdle
    /\ ProcIdle
    /\ PlayerIdle
    /\ MatIdle

BootFrame ==
    UNCHANGED <<neuronVars, encoderVars, pi, comm, rend, sim, hist, proc, player, mat>>

\* __init__, lines 23-24: loaded_config is read from config.json.
CtorLoadConfig ==
    /\ CtorSteps[boot.ctor] = "load_config"
    /\ boot' = [boot EXCEPT !.ctor = @ + 1]
    /\ BootFrame

\* __init__, line 27: self.hatpicPlayer = HapticPlayModule()
CtorCreatePlayer ==
    /\ CtorSteps[boot.ctor] = "create_player"
    /\ boot' = [boot EXCEPT !.ctor = @ + 1, !.hatpicPlayer = TRUE]
    /\ BootFrame

\* __init__, lines 30-34: sound_cache, snd_cfg, and the three sound fields
\* set to None.
CtorSoundFields ==
    /\ CtorSteps[boot.ctor] = "sound_fields"
    /\ boot' = [boot EXCEPT !.ctor = @ + 1, !.sa_sound = "None"]
    /\ BootFrame

\* initSoundObject, line 83: self.sa_sound is the start-up buffer.
CtorInitSaSound ==
    /\ CtorSteps[boot.ctor] = "init_sa_sound"
    /\ boot' = [boot EXCEPT !.ctor = @ + 1, !.sa_sound = "startup"]
    /\ BootFrame

\* initSoundObject, lines 86-109: the RA motion and click buffers; __init__
\* returns.
CtorInitRaSounds ==
    /\ CtorSteps[boot.ctor] = "init_ra_sounds"
    /\ boot' = [boot EXCEPT !.ctor = @ + 1]
    /\ BootFrame

\* The handler's statement for the bound msg evaluates self.hatpicPlayer:
\* lines 67, 69 and 71.
ReadsPlayer(msg) ==
    /\ msg.type = "dict"
    /\ \/ msg.command = "play" /\ msg.types \in { "sa", "ra" }
       \/ msg.command = "change"

\* The loop iteration that handled boot.payload is over.
Handled(b, rx) ==
    [b EXCEPT !.rx = rx, !.thread = "recvfrom"]

\* callback_message, lines 42-66: a datagram is received and parsed, and the
\* dispatch runs up to the first read of self.hatpicPlayer.
BootReceive ==
    /\ boot.thread = "recvfrom"
    /\ boot.rx.alive
    /\ boot.rx.handled < MaxDatagrams
    /\ \E p \in BootPayloads :
          LET msg == IF json_loads_ok(p) THEN json_loads(p) ELSE boot.rx.msg
          IN  boot' = IF ReadsPlayer(msg)
                      THEN [boot EXCEPT !.rx.msg = msg, !.payload = p,
                                        !.thread = "read_player"]
                      ELSE Handled([boot EXCEPT !.payload = p],
                                   callback_message(boot.rx, p))
    /\ BootFrame

\* callback_message, lines 67, 69, 71: self.hatpicPlayer is evaluated; an
\* attribute that was never assigned raises AttributeError.  play "sa" goes
\* on to read self.sa_sound; the other commands finish as Dispatch says.
BootReadPlayer ==
    /\ boot.thread = "read_player"
    /\ boot' = IF ~boot.hatpicPlayer
               THEN Handled([boot EXCEPT !.unassigned_read = "hatpicPlayer"],
                            Raise(boot.rx, boot.payload, "AttributeError"))
               ELSE IF boot.rx.msg.command = "play" /\ boot.rx.msg.types = "sa"
               THEN [boot EXCEPT !.thread = "read_sa_sound"]
               ELSE Handled(boot, Dispatch(boot.rx, boot.payload))
    /\ BootFrame

\* callback_message, line 67: self.sa_sound is evaluated and handed to
\* play_sound, which returns without playing when it is not a Sound
\* (player.py, lines 12-14).
BootReadSaSound ==
    /\ boot.thread = "read_sa_sound"
    /\ boot' = CASE boot.sa_sound = "unassigned" ->
                      Handled([boot EXCEPT !.unassigned_read = "sa_sound"],
                              Raise(boot.rx, boot.payload, "AttributeError"))
                 [] boot.sa_sound = "None" ->
                      Handled(boot, Done(boot.rx, boot.payload, "none"))
                 [] OTHER -> Handled(boot, Dispatch(boot.rx, boot.payload))
    /\ BootFrame

NextBoot ==
    \/ CtorLoadConfig \/ CtorCreatePlayer \/ CtorSoundFields
    \/ CtorInitSaSound \/ CtorInitRaSounds
    \/ BootReceive \/ BootReadPlayer \/ BootReadSaSound

SpecBoot == InitBoot /\ [][NextBoot]_vars

\* C30: under every interleaving of __init__ with the receive thread, the
\* handler never reads self.hatpicPlayer or self.sa_sound before __init__
\* has assigned the player module and the start-up buffer to it.
C30_HandlerSeesBuiltObject ==
    boot.unassigned_read = "none"

=============================================================================
